---- MODULE Spec2Model ----
(***************************************************************************)
(* A model of the ReAct agent of src/agent.py (ReactAgent) together with   *)
(* the textual protocol parser of src/response_parser.py (ResponseParser)  *)
(* and the tools of src/envs.py (SWEEnvironment).                          *)
(*                                                                         *)
(* A Python str is modelled as a sequence of tokens.  A token is one of    *)
(* the three protocol markers, a line break, a blank, or a word (a run of  *)
(* characters holding no white space and no marker).  Node ids, list       *)
(* indexes and slices keep Python's 0-based convention; a Python list is a *)
(* TLA+ sequence whose element i is stored at position i + 1.              *)
(***************************************************************************)
EXTENDS Integers, Sequences, FiniteSets, TLC

\* ------------------------------------------------------------------------
\* ResponseParser (src/response_parser.py)
\* ------------------------------------------------------------------------

BEGIN_CALL == "----BEGIN_FUNCTION_CALL----"
END_CALL == "----END_FUNCTION_CALL----"
ARG_SEP == "----ARG----"

\* the line break and the blank, the two white-space tokens
NL == "\n"
SP == " "
Whitespace == {NL, SP}

\* Python's None (a value distinct from every id and from -1)
None == -2

MaxOf(S) == CHOOSE x \in S : \A y \in S : y <= x
MinOf(S) == CHOOSE x \in S : \A y \in S : x <= y

\* text[a:b] for 0 <= a, b <= len(text)
Slice(text, a, b) == SubSeq(text, a + 1, b)

RFind_Leftmost(text, tok, start, end) ==
    LET hits == {i \in start..(end - 1) : text[i + 1] = tok}
    IN IF hits = {} THEN -1 ELSE MinOf(hits)

\* text.rfind(tok, start, end): the largest index in [start, end) or -1
RFind(text, tok, start, end) ==
    LET hits == {i \in start..(end - 1) : text[i + 1] = tok}
    IN IF hits = {} THEN -1 ELSE MaxOf(hits)

\* text.find(tok): the smallest index or -1
Find(text, tok) ==
    LET hits == {i \in 0..(Len(text) - 1) : text[i + 1] = tok}
    IN IF hits = {} THEN -1 ELSE MinOf(hits)

\* A recursive operator binds what it passes on (x \in {e}) so that the
\* argument is evaluated once, wherever the operator is evaluated.

\* text.lstrip(chars)
RECURSIVE LStripSet(_, _)
LStripSet(text, chars) ==
    IF text # <<>> /\ Head(text) \in chars
    THEN CHOOSE r \in {LStripSet(rest, chars) : rest \in {Tail(text)}} : TRUE
    ELSE text

\* text.rstrip(chars)
RECURSIVE RStripSet(_, _)
RStripSet(text, chars) ==
    IF text # <<>> /\ text[Len(text)] \in chars
    THEN CHOOSE r \in {RStripSet(rest, chars) :
                          rest \in {SubSeq(text, 1, Len(text) - 1)}} : TRUE
    ELSE text

Strip_NewlinesOnly(text) == RStripSet(LStripSet(text, {NL}), {NL})

\* text.strip(): white space removed at both ends
Strip(text) == RStripSet(LStripSet(text, Whitespace), Whitespace)

\* text.split(sep): the segments between the occurrences of sep, in order
RECURSIVE Split(_, _)
Split(text, sep) ==
    LET i == Find(text, sep)
    IN IF i = -1
       THEN <<text>>
       ELSE <<Slice(text, 0, i)>>
            \o CHOOSE r \in {Split(rest, sep) :
                                rest \in {Slice(text, i + 1, Len(text))}} : TRUE

ParseError_OneMessage(msg) == [ok |-> FALSE, error |-> <<"Malformed function call">>]

\* raise ValueError(msg)
ParseError(msg) == [ok |-> FALSE, error |-> msg]

\* arguments[arg_name] = arg_value
DictSet(d, k, v) == [x \in DOMAIN d \cup {k} |-> IF x = k THEN v ELSE d[x]]

EmptyDict == [x \in {} |-> <<>>]

\* d.get(k): the value or None-as-absent; callers test Has first
Has(d, k) == k \in DOMAIN d

IsBlank_EmptyOnly(segment) == segment = <<>>

\* not segment.strip()
IsBlank(segment) == Strip(segment) = <<>>

\* the loop over parts[1:] of ResponseParser.parse
RECURSIVE ParseBlocks(_, _)
ParseBlocks(blocks, arguments) ==
    IF blocks = <<>>
    THEN [ok |-> TRUE, arguments |-> arguments]
    ELSE LET segment == LStripSet(Head(blocks), {NL})
             newline_idx == Find(segment, NL)
             arg_name == Strip(Slice(segment, 0, newline_idx))
             arg_value == Strip(Slice(segment, newline_idx + 1, Len(segment)))
         IN IF IsBlank(segment)
            THEN CHOOSE r \in {ParseBlocks(rest, arguments) :
                                  rest \in {Tail(blocks)}} : TRUE
            ELSE IF newline_idx = -1
            THEN ParseError(<<"Malformed argument block: expected name and value">>)
            ELSE IF arg_name = <<>>
            THEN ParseError(<<"Malformed argument block: missing argument name">>)
            ELSE CHOOSE r \in
                   {ParseBlocks(rest, set) :
                      rest \in {Tail(blocks)},
                      set \in {DictSet(arguments, arg_name, arg_value)}} : TRUE

\* ResponseParser.parse
Parse(text) ==
    LET end_idx == RFind(text, END_CALL, 0, Len(text))
        begin_idx == RFind(text, BEGIN_CALL, 0, end_idx)
        thought == Strip(Slice(text, 0, begin_idx))
        inner == Slice(text, begin_idx + 1, end_idx)
    IN IF end_idx = -1
       THEN ParseError(<<"Missing END_FUNCTION_CALL delimiter">>)
       ELSE IF begin_idx = -1
       THEN ParseError(<<"Missing BEGIN_FUNCTION_CALL delimiter">>)
       ELSE CHOOSE r \in
              {IF func_name = <<>>
               THEN ParseError(<<"Malformed function call: missing function name">>)
               ELSE CHOOSE a \in
                      {IF ~args.ok
                       THEN args
                       ELSE [ok |-> TRUE, thought |-> thought, name |-> func_name,
                             arguments |-> args.arguments]
                       : args \in {ParseBlocks(Tail(parts), EmptyDict)}} : TRUE
               : parts \in {Split(inner, ARG_SEP)},
                 func_name \in {Strip(Split(inner, ARG_SEP)[1])}} : TRUE

\* ------------------------------------------------------------------------
\* Python values used by the tools
\* ------------------------------------------------------------------------

\* the ints whose decimal literal a text of the model may hold
Literals == -1..200

\* str(n) for an int n
IntText(n) == <<ToString(n)>>

\* a Python value handed to int(): an int, a str, None, or the float
\* num / den (den > 0)
PyInt(n) == [t |-> "int", v |-> n, s |-> <<>>]
PyStr(text) == [t |-> "str", v |-> 0, s |-> text]
PyNone == [t |-> "none", v |-> 0, s |-> <<>>]
PyFloat(num, den) == [t |-> "float", v |-> num, s |-> <<>>, den |-> den]

\* whether int(val) returns (it raises on None and on a str that is no
\* literal; a finite float it truncates)
IntOk(val) ==
    \/ val.t = "int"
    \/ val.t = "float"
    \/ val.t = "str" /\ Len(val.s) = 1
       /\ \E n \in Literals : ToString(n) = val.s[1]

\* int(val), where IntOk(val)
IntOf(val) ==
    IF val.t = "int"
    THEN val.v
    ELSE IF val.t = "float"
    THEN IF val.v >= 0 THEN val.v \div val.den ELSE -((-val.v) \div val.den)
    ELSE CHOOSE n \in Literals : ToString(n) = val.s[1]

\* needle in text (str.__contains__)
Contains(text, needle) ==
    \E i \in 0..(Len(text) - Len(needle)) :
        Slice(text, i, i + Len(needle)) = needle

\* text.startswith(prefix)
StartsWith(text, prefix) ==
    Len(text) >= Len(prefix) /\ Slice(text, 0, Len(prefix)) = prefix

\* os.path.basename(path): what follows the last "/"
Basename(path) == Slice(path, RFind(path, "/", 0, Len(path)) + 1, Len(path))

\* ------------------------------------------------------------------------
\* The message tree (ReactAgent, src/agent.py)
\* ------------------------------------------------------------------------

\* A tree value t is [id_to_message, root_message_id, current_message_id].
\* The timestamp field of a message is wall-clock time and is left out.

Tree(msgs, root, cur) ==
    [id_to_message |-> msgs, root_message_id |-> root, current_message_id |-> cur]

\* self.id_to_message[id]
Msg(t, id) == t.id_to_message[id + 1]

\* ReactAgent.__init__, before any message: empty list, both pointers -1
EmptyTree == Tree(<<>>, -1, -1)

AddMessage_NoAdvance(t, role, content) ==
    LET new_message_id == Len(t.id_to_message)
        parent_id == IF t.current_message_id # -1 THEN t.current_message_id ELSE None
        message == [role |-> role, content |-> content, unique_id |-> new_message_id,
                    parent |-> parent_id, children |-> <<>>]
        appended == Append(t.id_to_message, message)
        linked == IF parent_id # None
                  THEN [appended EXCEPT ![parent_id + 1].children =
                                            Append(@, new_message_id)]
                  ELSE appended
    IN Tree(linked,
            IF parent_id # None THEN t.root_message_id ELSE new_message_id,
            t.current_message_id)

AddMessage_NoLink(t, role, content) ==
    LET new_message_id == Len(t.id_to_message)
        parent_id == IF t.current_message_id # -1 THEN t.current_message_id ELSE None
        message == [role |-> role, content |-> content, unique_id |-> new_message_id,
                    parent |-> parent_id, children |-> <<>>]
    IN Tree(Append(t.id_to_message, message),
            IF parent_id # None THEN t.root_message_id ELSE new_message_id,
            new_message_id)

AddMessage_SelfParent(t, role, content) ==
    LET new_message_id == Len(t.id_to_message)
        parent_id == IF t.current_message_id # -1 THEN new_message_id ELSE None
        message == [role |-> role, content |-> content, unique_id |-> new_message_id,
                    parent |-> parent_id, children |-> <<>>]
        appended == Append(t.id_to_message, message)
        linked == IF parent_id # None
                  THEN [appended EXCEPT ![parent_id + 1].children =
                                            Append(@, new_message_id)]
                  ELSE appended
    IN Tree(linked,
            IF parent_id # None THEN t.root_message_id ELSE new_message_id,
            new_message_id)

AddMessage_ParentNewest(t, role, content) ==
    LET new_message_id == Len(t.id_to_message)
        parent_id == IF new_message_id > 0 THEN new_message_id - 1 ELSE None
        message == [role |-> role, content |-> content, unique_id |-> new_message_id,
                    parent |-> parent_id, children |-> <<>>]
        appended == Append(t.id_to_message, message)
        linked == IF parent_id # None
                  THEN [appended EXCEPT ![parent_id + 1].children =
                                            Append(@, new_message_id)]
                  ELSE appended
    IN Tree(linked,
            IF parent_id # None THEN t.root_message_id ELSE new_message_id,
            new_message_id)

\* ReactAgent.add_message: the tree after the call; it returns the new id,
\* which is the length of the list before the call
AddMessage(t, role, content) ==
    LET new_message_id == Len(t.id_to_message)
        parent_id == IF t.current_message_id # -1 THEN t.current_message_id ELSE None
        message == [role |-> role, content |-> content, unique_id |-> new_message_id,
                    parent |-> parent_id, children |-> <<>>]
        appended == Append(t.id_to_message, message)
        linked == IF parent_id # None
                  THEN [appended EXCEPT ![parent_id + 1].children =
                                            Append(@, new_message_id)]
                  ELSE appended
    IN Tree(linked,
            IF parent_id # None THEN t.root_message_id ELSE new_message_id,
            new_message_id)

\* ReactAgent.set_message_content: whether it raises IndexError
SetContentRaises(t, message_id) ==
    message_id < 0 \/ message_id >= Len(t.id_to_message)

SetMessageContent_MovesCurrent(t, message_id, content) ==
    Tree([t.id_to_message EXCEPT ![message_id + 1].content = content],
         t.root_message_id, message_id)

\* ReactAgent.set_message_content, where it does not raise
SetMessageContent(t, message_id, content) ==
    Tree([t.id_to_message EXCEPT ![message_id + 1].content = content],
         t.root_message_id, t.current_message_id)

\* the ids the __init__ calls of add_message return
system_message_id == 0
user_message_id == 1
instructions_message_id == 2

\* ReactAgent.__init__: the three nodes every agent starts with
InitTree ==
    AddMessage(
        AddMessage(
            AddMessage(EmptyTree, "system", <<"You are a Smart ReAct agent.">>),
            "user", <<>>),
        "instructor", <<>>)

RECURSIVE WalkUp_NotReversed(_, _)
WalkUp_NotReversed(t, cursor) ==
    IF cursor = None \/ cursor = -1
    THEN <<>>
    ELSE <<cursor>>
         \o (CHOOSE r \in {WalkUp_NotReversed(t, up) :
                              up \in {Msg(t, cursor).parent}} : TRUE)

\* ReactAgent.get_context: the ids walked from current up to the root,
\* reversed into root-to-current order
RECURSIVE WalkUp(_, _)
WalkUp(t, cursor) ==
    IF cursor = None \/ cursor = -1
    THEN <<>>
    ELSE (CHOOSE r \in {WalkUp(t, up) : up \in {Msg(t, cursor).parent}} : TRUE)
         \o <<cursor>>

PathIds(t) == WalkUp(t, t.current_message_id)

\* the ids on the root-to-current path, as a set
PathSet(t) == {PathIds(t)[k] : k \in 1..Len(PathIds(t))}

\* ReactAgent.message_id_to_context: the text of one message, as its header
\* line, the line the role puts before the content, the content, and (for
\* the system message) the tools described, which are those of the registry
MessageIdToContext(t, fmap, message_id) ==
    LET message == Msg(t, message_id)
    IN [header |-> <<"----------------------------", NL, "|MESSAGE(role=\"",
                     message.role, "\", id=", ToString(message.unique_id), ")|", NL>>,
        role |-> message.role,
        id |-> message.unique_id,
        preamble |-> IF message.role = "instructor"
                     THEN <<"YOU MUST FOLLOW THE FOLLOWING INSTRUCTIONS AT ANY COST. OTHERWISE, YOU WILL BE DECOMISSIONED.", NL>>
                     ELSE <<>>,
        content |-> message.content \o <<NL>>,
        tools |-> IF message.role = "system" THEN DOMAIN fmap ELSE {}]

\* ReactAgent.get_context: context_parts, the texts that are joined, in order
GetContext(t, fmap) ==
    IF t.current_message_id = -1
    THEN <<>>
    ELSE [k \in 1..Len(PathIds(t)) |-> MessageIdToContext(t, fmap, PathIds(t)[k])]

Backtrack_FloorAtInstructions(t, instructions, at_message_id) ==
    IF ~IntOk(at_message_id)
    THEN [raised |-> TRUE, exc |-> "ValueError",
          value |-> <<"at_message_id must be an integer">>, tree |-> t]
    ELSE IF IntOf(at_message_id) < instructions_message_id
            \/ IntOf(at_message_id) >= Len(t.id_to_message)
    THEN [raised |-> TRUE, exc |-> "IndexError",
          value |-> <<"at_message_id out of range">>, tree |-> t]
    ELSE LET t1 == SetMessageContent(t, instructions_message_id, instructions)
         IN [raised |-> FALSE, exc |-> "none",
             value |-> <<"Updated instructions and backtracked to message ">>
                       \o IntText(IntOf(at_message_id)) \o <<".">>,
             tree |-> Tree(t1.id_to_message, t1.root_message_id,
                           IntOf(at_message_id))]

Backtrack_KeepCurrent(t, instructions, at_message_id) ==
    IF ~IntOk(at_message_id)
    THEN [raised |-> TRUE, exc |-> "ValueError",
          value |-> <<"at_message_id must be an integer">>, tree |-> t]
    ELSE IF IntOf(at_message_id) < 0
            \/ IntOf(at_message_id) >= Len(t.id_to_message)
    THEN [raised |-> TRUE, exc |-> "IndexError",
          value |-> <<"at_message_id out of range">>, tree |-> t]
    ELSE [raised |-> FALSE, exc |-> "none",
          value |-> <<"Updated instructions and backtracked to message ">>
                    \o IntText(IntOf(at_message_id)) \o <<".">>,
          tree |-> SetMessageContent(t, instructions_message_id, instructions)]

Backtrack_NoCheck(t, instructions, at_message_id) ==
    IF ~IntOk(at_message_id)
    THEN [raised |-> TRUE, exc |-> "ValueError",
          value |-> <<"at_message_id must be an integer">>, tree |-> t]
    ELSE [raised |-> FALSE, exc |-> "none",
          value |-> <<"Updated instructions and backtracked to message ">>,
          tree |-> Tree(t.id_to_message, t.root_message_id, IntOf(at_message_id))]

Backtrack_OverwritesTarget(t, instructions, at_message_id) ==
    IF ~IntOk(at_message_id)
    THEN [raised |-> TRUE, exc |-> "ValueError",
          value |-> <<"at_message_id must be an integer">>, tree |-> t]
    ELSE IF IntOf(at_message_id) < 0
            \/ IntOf(at_message_id) >= Len(t.id_to_message)
    THEN [raised |-> TRUE, exc |-> "IndexError",
          value |-> <<"at_message_id out of range">>, tree |-> t]
    ELSE LET t1 == SetMessageContent(t, IntOf(at_message_id), instructions)
         IN [raised |-> FALSE, exc |-> "none",
             value |-> <<"Updated instructions and backtracked to message ">>
                       \o IntText(IntOf(at_message_id)) \o <<".">>,
             tree |-> Tree(t1.id_to_message, t1.root_message_id,
                           IntOf(at_message_id))]

\* ReactAgent.add_instructions_and_backtrack: [raised, exc, value, tree]
Backtrack(t, instructions, at_message_id) ==
    IF ~IntOk(at_message_id)
    THEN [raised |-> TRUE, exc |-> "ValueError",
          value |-> <<"at_message_id must be an integer">>, tree |-> t]
    ELSE IF IntOf(at_message_id) < 0
            \/ IntOf(at_message_id) >= Len(t.id_to_message)
    THEN [raised |-> TRUE, exc |-> "IndexError",
          value |-> <<"at_message_id out of range">>, tree |-> t]
    ELSE LET t1 == SetMessageContent(t, instructions_message_id, instructions)
         IN [raised |-> FALSE, exc |-> "none",
             value |-> <<"Updated instructions and backtracked to message ">>
                       \o IntText(IntOf(at_message_id)) \o <<".">>,
             tree |-> Tree(t1.id_to_message, t1.root_message_id,
                           IntOf(at_message_id))]

\* ------------------------------------------------------------------------
\* Tools: ReactAgent.finish, ReactAgent.add_instructions_and_backtrack and
\* the SWEEnvironment tools of src/envs.py
\* ------------------------------------------------------------------------

\* a callable is named by its __name__; OtherShowFile is the show_file
\* method of a second environment, a different callable of the same
\* __name__; NotCallable is an object that is none
OtherShowFile == "env2.show_file"
Tools ==
    {"finish", "add_instructions_and_backtrack", "run_bash_cmd",
     "replace_in_file", "show_file", "show_file_range", "stage_and_diff",
     OtherShowFile}
NotCallable == "not_callable"

\* tool.__name__ as a str
ToolName(tool) == IF tool = OtherShowFile THEN <<"show_file">> ELSE <<tool>>

\* inspect.signature(tool).parameters.keys() (self is bound)
Params(tool) ==
    CASE tool = "finish" -> <<"result">>
      [] tool = "add_instructions_and_backtrack" -> <<"instructions", "at_message_id">>
      [] tool = "run_bash_cmd" -> <<"command">>
      [] tool = "replace_in_file" -> <<"file_path", "from_line", "to_line", "content">>
      [] tool = "show_file" -> <<"file_path">>
      [] tool = OtherShowFile -> <<"file_path">>
      [] tool = "show_file_range" -> <<"file_path", "from_line", "to_line">>
      [] tool = "stage_and_diff" -> <<>>

ParamNames(tool) == {<<Params(tool)[i]>> : i \in 1..Len(Params(tool))}

\* accepted.get(k) as a value for int(): the str, or None when absent
Get(d, k) == IF Has(d, <<k>>) THEN PyStr(d[<<k>>]) ELSE PyNone

Raise(exc, msg, t) == [raised |-> TRUE, exc |-> exc, value |-> msg, tree |-> t]
Return(value, t) == [raised |-> FALSE, exc |-> "none", value |-> value, tree |-> t]

\* self.env.execute(cmd): the environment returns an output or fails; env is the
\* outcome the environment gives this call
Execute(env, t) ==
    IF env.raised THEN Raise("RuntimeError", env.value, t) ELSE Return(env.value, t)

\* the int coercion and range check shared by replace_in_file and
\* show_file_range, then the environment call
RangeTool(accepted, env, t) ==
    LET from_line == Get(accepted, "from_line")
        to_line == Get(accepted, "to_line")
    IN IF ~IntOk(from_line) \/ ~IntOk(to_line)
       THEN Raise("ValueError", <<"from_line/to_line must be integers">>, t)
       ELSE IF IntOf(from_line) < 1 \/ IntOf(to_line) < IntOf(from_line)
       THEN Raise("ValueError", <<"Invalid line range">>, t)
       ELSE Execute(env, t)

Invoke_FinishDefault(tool, accepted, env, t) ==
    IF tool = "finish" /\ DOMAIN accepted = {}
    THEN Return(<<>>, t)
    ELSE IF DOMAIN accepted # ParamNames(tool)
    THEN Raise("TypeError", <<"missing required positional argument">>, t)
    ELSE CASE tool = "finish" -> Return(accepted[<<"result">>], t)
           [] tool = "add_instructions_and_backtrack" ->
                Backtrack(t, accepted[<<"instructions">>],
                          PyStr(accepted[<<"at_message_id">>]))
           [] tool = "run_bash_cmd" ->
                IF Strip(accepted[<<"command">>]) = <<>>
                THEN Raise("ValueError", <<"Empty command">>, t)
                ELSE Execute(env, t)
           [] tool = "replace_in_file" -> RangeTool(accepted, env, t)
           [] tool = "show_file" -> Execute(env, t)
           [] tool = OtherShowFile -> Execute(env, t)
           [] tool = "show_file_range" -> RangeTool(accepted, env, t)
           [] tool = "stage_and_diff" ->
                IF env.raised
                THEN Raise("ValueError", <<"stage_and_diff failed: ">> \o env.value, t)
                ELSE Return(env.value, t)

\* tool_fn(**accepted): binding of the keyword arguments, then the body
Invoke(tool, accepted, env, t) ==
    IF DOMAIN accepted # ParamNames(tool)
    THEN Raise("TypeError", <<"missing required positional argument">>, t)
    ELSE CASE tool = "finish" -> Return(accepted[<<"result">>], t)
           [] tool = "add_instructions_and_backtrack" ->
                Backtrack(t, accepted[<<"instructions">>],
                          PyStr(accepted[<<"at_message_id">>]))
           [] tool = "run_bash_cmd" ->
                IF Strip(accepted[<<"command">>]) = <<>>
                THEN Raise("ValueError", <<"Empty command">>, t)
                ELSE Execute(env, t)
           [] tool = "replace_in_file" -> RangeTool(accepted, env, t)
           [] tool = "show_file" -> Execute(env, t)
           [] tool = OtherShowFile -> Execute(env, t)
           [] tool = "show_file_range" -> RangeTool(accepted, env, t)
           [] tool = "stage_and_diff" ->
                IF env.raised
                THEN Raise("ValueError", <<"stage_and_diff failed: ">> \o env.value, t)
                ELSE Return(env.value, t)

RECURSIVE AddFunctionsLoop_KeepFirst(_, _)
AddFunctionsLoop_KeepFirst(fmap, tools) ==
    IF tools = <<>>
    THEN [function_map |-> fmap, raised |-> FALSE]
    ELSE IF Head(tools) \notin Tools
    THEN [function_map |-> fmap, raised |-> TRUE]
    ELSE CHOOSE r \in
           {AddFunctionsLoop_KeepFirst(set, rest) :
              set \in {IF Has(fmap, ToolName(Head(tools)))
                       THEN fmap
                       ELSE DictSet(fmap, ToolName(Head(tools)), Head(tools))},
              rest \in {Tail(tools)}} : TRUE

\* ReactAgent.add_functions: the registry after the loop over tools, and
\* whether the loop raised TypeError (the tools before the bad one stay)
RECURSIVE AddFunctionsLoop(_, _)
AddFunctionsLoop(fmap, tools) ==
    IF tools = <<>>
    THEN [function_map |-> fmap, raised |-> FALSE]
    ELSE IF Head(tools) \notin Tools
    THEN [function_map |-> fmap, raised |-> TRUE]
    ELSE CHOOSE r \in
           {AddFunctionsLoop(set, rest) :
              set \in {DictSet(fmap, ToolName(Head(tools)), Head(tools))},
              rest \in {Tail(tools)}} : TRUE

\* ------------------------------------------------------------------------
\* One iteration of the loop of ReactAgent.run
\* ------------------------------------------------------------------------

\* the hard ceiling on the step budget
HardCeiling == 100
\* the largest to_line - from_line an edit may span
LargeEdit == 120
\* the number of tool messages _recent_tool_output_has_diff looks at
LookbackWindow == 10

FileTools == {<<"replace_in_file">>, <<"show_file">>, <<"show_file_range">>}

Accepted_All(tool, fn_args) == fn_args

\* the kwargs kept: the declared parameters the model supplied
Accepted(tool, fn_args) ==
    [k \in ParamNames(tool) \cap DOMAIN fn_args |-> fn_args[k]]

\* isinstance(file_arg, str) and file_arg
IsFileArg(accepted) ==
    Has(accepted, <<"file_path">>) /\ accepted[<<"file_path">>] # <<>>

\* the file hint recorded before the guards run
RecordHint(fn_name, accepted, recent) ==
    IF fn_name \in FileTools /\ IsFileArg(accepted)
    THEN recent \cup {accepted[<<"file_path">>]}
    ELSE recent

\* the prior-inspection guard: whether it raises; recent is the set after
\* RecordHint
InspectGuardRaises(fn_name, accepted, recent) ==
    /\ fn_name = <<"replace_in_file">>
    /\ IsFileArg(accepted)
    /\ accepted[<<"file_path">>] \notin recent

\* the large-edit guard: whether an exception leaves its try statement.  The
\* try block raises when a coercion fails or when the range is too large;
\* the except clause catches Exception and passes.
LargeEditGuardRaises(fn_name, accepted) ==
    LET from_line == Get(accepted, "from_line")
        to_line == Get(accepted, "to_line")
        coercion_fails == ~IntOk(from_line) \/ ~IntOk(to_line)
        too_large == ~coercion_fails /\ IntOf(to_line) - IntOf(from_line) > LargeEdit
        raised_in_try == coercion_fails \/ too_large
        caught == raised_in_try
    IN fn_name = <<"replace_in_file">> /\ raised_in_try /\ ~caught

\* the content test of _recent_tool_output_has_diff
IsDiff(content) ==
    \/ Contains(content, <<"diff", SP, "--git">>)
    \/ StartsWith(content, <<"+++", SP>>)
    \/ StartsWith(content, <<"---", SP>>)

RecentToolOutputHasDiff_PathOnly(t, recent) ==
    LET n == Len(t.id_to_message)
        IsTool(i) == Msg(t, i).role = "tool"
        Scanned == {i \in PathSet(t) :
                      /\ IsTool(i)
                      /\ Cardinality({j \in (i + 1)..(n - 1) : IsTool(j)})
                            < LookbackWindow}
    IN \E i \in Scanned :
          /\ IsDiff(Msg(t, i).content)
          /\ \/ recent = {}
             \/ \E f \in recent :
                   Basename(f) # <<>> /\ Contains(Msg(t, i).content, Basename(f))

RecentToolOutputHasDiff_HintsIgnored(t, recent) ==
    LET n == Len(t.id_to_message)
        IsTool(i) == Msg(t, i).role = "tool"
        Scanned == {i \in 0..(n - 1) :
                      /\ IsTool(i)
                      /\ Cardinality({j \in (i + 1)..(n - 1) : IsTool(j)})
                            < LookbackWindow}
    IN \E i \in Scanned : IsDiff(Msg(t, i).content)

\* ReactAgent._recent_tool_output_has_diff: the scan of reversed(id_to_message)
\* reaches a tool message iff fewer than LookbackWindow tool messages follow it
RecentToolOutputHasDiff(t, recent) ==
    LET n == Len(t.id_to_message)
        IsTool(i) == Msg(t, i).role = "tool"
        Scanned == {i \in 0..(n - 1) :
                      /\ IsTool(i)
                      /\ Cardinality({j \in (i + 1)..(n - 1) : IsTool(j)})
                            < LookbackWindow}
    IN \E i \in Scanned :
          /\ IsDiff(Msg(t, i).content)
          /\ \/ recent = {}
             \/ \E f \in recent :
                   Basename(f) # <<>> /\ Contains(Msg(t, i).content, Basename(f))

StepResult(t, recent, kind, fn, accepted, invoked, exc, returned, value) ==
    [tree |-> t, recent |-> recent, kind |-> kind, fn |-> fn, accepted |-> accepted,
     invoked |-> invoked, exc |-> exc, returned |-> returned, value |-> value]

ErrorExecuting(fn_name, e) == <<"Error executing ">> \o fn_name \o <<": ">> \o e

Complete_BlockedSilent(t2, recent1, guard, fn_name, accepted, value) ==
    IF fn_name = <<"finish">>
    THEN IF guard /\ ~RecentToolOutputHasDiff(t2, recent1)
         THEN StepResult(t2, recent1, "finish_blocked", fn_name, accepted, TRUE,
                         "none", FALSE, <<>>)
         ELSE StepResult(t2, recent1, "finished", fn_name, accepted, TRUE, "none",
                         TRUE, value)
    ELSE StepResult(t2, recent1, "tool_ok", fn_name, accepted, TRUE, "none", FALSE, <<>>)

Complete_GuardAlways(t2, recent1, guard, fn_name, accepted, value) ==
    IF fn_name = <<"finish">>
    THEN IF ~RecentToolOutputHasDiff(t2, recent1)
         THEN StepResult(
                AddMessage(t2, "tool",
                           <<"Guard blocked finish: no non-empty staged diff detected. Continue editing and call stage_and_diff before finish.">>),
                recent1, "finish_blocked", fn_name, accepted, TRUE, "none", FALSE, <<>>)
         ELSE StepResult(t2, recent1, "finished", fn_name, accepted, TRUE, "none",
                         TRUE, value)
    ELSE StepResult(t2, recent1, "tool_ok", fn_name, accepted, TRUE, "none", FALSE, <<>>)

Complete_AnyToolEnds(t2, recent1, guard, fn_name, accepted, value) ==
    IF guard /\ ~RecentToolOutputHasDiff(t2, recent1)
    THEN StepResult(
           AddMessage(t2, "tool",
                      <<"Guard blocked finish: no non-empty staged diff detected. Continue editing and call stage_and_diff before finish.">>),
           recent1, "finish_blocked", fn_name, accepted, TRUE, "none", FALSE, <<>>)
    ELSE StepResult(t2, recent1, "finished", fn_name, accepted, TRUE, "none",
                    TRUE, value)

\* ReactAgent.run after the tool returned: the result node, then the finish
\* test with its empty-diff guard; t2 is the tree holding the result node
Complete(t2, recent1, guard, fn_name, accepted, value) ==
    IF fn_name = <<"finish">>
    THEN IF guard /\ ~RecentToolOutputHasDiff(t2, recent1)
         THEN StepResult(
                AddMessage(t2, "tool",
                           <<"Guard blocked finish: no non-empty staged diff detected. Continue editing and call stage_and_diff before finish.">>),
                recent1, "finish_blocked", fn_name, accepted, TRUE, "none", FALSE, <<>>)
         ELSE StepResult(t2, recent1, "finished", fn_name, accepted, TRUE, "none",
                         TRUE, value)
    ELSE StepResult(t2, recent1, "tool_ok", fn_name, accepted, TRUE, "none", FALSE, <<>>)

Dispatch_HintBeforeLookup(t1, fmap, recent, guard, fn_name, fn_args, env) ==
    LET tool_fn == fmap[fn_name]
        accepted == Accepted(tool_fn, fn_args)
        recent1 == RecordHint(fn_name, accepted, recent)
    IN IF ~Has(fmap, fn_name)
       THEN StepResult(
              AddMessage(t1, "tool",
                         <<"Error: unknown function '">> \o fn_name \o <<"'">>),
              RecordHint(fn_name, fn_args, recent), "unknown_function", fn_name, EmptyDict, FALSE, "none", FALSE, <<>>)
       ELSE IF InspectGuardRaises(fn_name, accepted, recent1)
       THEN StepResult(
              AddMessage(t1, "tool",
                         ErrorExecuting(fn_name, <<"Edit blocked: inspect the file first with show_file/show_file_range.">>)),
              recent1, "guard_rejected", fn_name, accepted, FALSE, "ValueError", FALSE, <<>>)
       ELSE IF LargeEditGuardRaises(fn_name, accepted)
       THEN StepResult(
              AddMessage(t1, "tool",
                         ErrorExecuting(fn_name, <<"Edit blocked: requested range too large (>120 lines).">>)),
              recent1, "guard_rejected", fn_name, accepted, FALSE, "ValueError", FALSE, <<>>)
       ELSE CHOOSE r \in
              {IF call.raised
               THEN StepResult(
                      AddMessage(call.tree, "tool", ErrorExecuting(fn_name, call.value)),
                      recent1, "tool_error", fn_name, accepted, TRUE, call.exc, FALSE, <<>>)
               ELSE CHOOSE c \in
                      {Complete(t2, recent1, guard, fn_name, accepted, call.value) :
                         t2 \in {AddMessage(call.tree, "tool", call.value)}} : TRUE
               : call \in {Invoke(tool_fn, accepted, env, t1)}} : TRUE

Dispatch_NoErrorNode(t1, fmap, recent, guard, fn_name, fn_args, env) ==
    LET tool_fn == fmap[fn_name]
        accepted == Accepted(tool_fn, fn_args)
        recent1 == RecordHint(fn_name, accepted, recent)
    IN IF ~Has(fmap, fn_name)
       THEN StepResult(
              AddMessage(t1, "tool",
                         <<"Error: unknown function '">> \o fn_name \o <<"'">>),
              recent, "unknown_function", fn_name, EmptyDict, FALSE, "none", FALSE, <<>>)
       ELSE IF InspectGuardRaises(fn_name, accepted, recent1)
       THEN StepResult(
              AddMessage(t1, "tool",
                         ErrorExecuting(fn_name, <<"Edit blocked: inspect the file first with show_file/show_file_range.">>)),
              recent1, "guard_rejected", fn_name, accepted, FALSE, "ValueError", FALSE, <<>>)
       ELSE IF LargeEditGuardRaises(fn_name, accepted)
       THEN StepResult(
              AddMessage(t1, "tool",
                         ErrorExecuting(fn_name, <<"Edit blocked: requested range too large (>120 lines).">>)),
              recent1, "guard_rejected", fn_name, accepted, FALSE, "ValueError", FALSE, <<>>)
       ELSE CHOOSE r \in
              {IF call.raised
               THEN StepResult(
                      call.tree,
                      recent1, "tool_error", fn_name, accepted, TRUE, call.exc, FALSE, <<>>)
               ELSE CHOOSE c \in
                      {Complete(t2, recent1, guard, fn_name, accepted, call.value) :
                         t2 \in {AddMessage(call.tree, "tool", call.value)}} : TRUE
               : call \in {Invoke(tool_fn, accepted, env, t1)}} : TRUE

Dispatch_UnknownSilent(t1, fmap, recent, guard, fn_name, fn_args, env) ==
    LET tool_fn == fmap[fn_name]
        accepted == Accepted(tool_fn, fn_args)
        recent1 == RecordHint(fn_name, accepted, recent)
    IN IF ~Has(fmap, fn_name)
       THEN StepResult(
              t1,
              recent, "unknown_function", fn_name, EmptyDict, FALSE, "none", FALSE, <<>>)
       ELSE IF InspectGuardRaises(fn_name, accepted, recent1)
       THEN StepResult(
              AddMessage(t1, "tool",
                         ErrorExecuting(fn_name, <<"Edit blocked: inspect the file first with show_file/show_file_range.">>)),
              recent1, "guard_rejected", fn_name, accepted, FALSE, "ValueError", FALSE, <<>>)
       ELSE IF LargeEditGuardRaises(fn_name, accepted)
       THEN StepResult(
              AddMessage(t1, "tool",
                         ErrorExecuting(fn_name, <<"Edit blocked: requested range too large (>120 lines).">>)),
              recent1, "guard_rejected", fn_name, accepted, FALSE, "ValueError", FALSE, <<>>)
       ELSE CHOOSE r \in
              {IF call.raised
               THEN StepResult(
                      AddMessage(call.tree, "tool", ErrorExecuting(fn_name, call.value)),
                      recent1, "tool_error", fn_name, accepted, TRUE, call.exc, FALSE, <<>>)
               ELSE CHOOSE c \in
                      {Complete(t2, recent1, guard, fn_name, accepted, call.value) :
                         t2 \in {AddMessage(call.tree, "tool", call.value)}} : TRUE
               : call \in {Invoke(tool_fn, accepted, env, t1)}} : TRUE

\* ReactAgent.run from the registry lookup to the tool call: the try
\* statement with the hint, the two guards and tool_fn(**accepted), and its
\* except clause; t1 is the tree holding the assistant node
Dispatch(t1, fmap, recent, guard, fn_name, fn_args, env) ==
    LET tool_fn == fmap[fn_name]
        accepted == Accepted(tool_fn, fn_args)
        recent1 == RecordHint(fn_name, accepted, recent)
    IN IF ~Has(fmap, fn_name)
       THEN StepResult(
              AddMessage(t1, "tool",
                         <<"Error: unknown function '">> \o fn_name \o <<"'">>),
              recent, "unknown_function", fn_name, EmptyDict, FALSE, "none", FALSE, <<>>)
       ELSE IF InspectGuardRaises(fn_name, accepted, recent1)
       THEN StepResult(
              AddMessage(t1, "tool",
                         ErrorExecuting(fn_name, <<"Edit blocked: inspect the file first with show_file/show_file_range.">>)),
              recent1, "guard_rejected", fn_name, accepted, FALSE, "ValueError", FALSE, <<>>)
       ELSE IF LargeEditGuardRaises(fn_name, accepted)
       THEN StepResult(
              AddMessage(t1, "tool",
                         ErrorExecuting(fn_name, <<"Edit blocked: requested range too large (>120 lines).">>)),
              recent1, "guard_rejected", fn_name, accepted, FALSE, "ValueError", FALSE, <<>>)
       ELSE CHOOSE r \in
              {IF call.raised
               THEN StepResult(
                      AddMessage(call.tree, "tool", ErrorExecuting(fn_name, call.value)),
                      recent1, "tool_error", fn_name, accepted, TRUE, call.exc, FALSE, <<>>)
               ELSE CHOOSE c \in
                      {Complete(t2, recent1, guard, fn_name, accepted, call.value) :
                         t2 \in {AddMessage(call.tree, "tool", call.value)}} : TRUE
               : call \in {Invoke(tool_fn, accepted, env, t1)}} : TRUE

Iteration_ParseFirst(t, fmap, recent, guard, model_output, env) ==
    CHOOSE r \in
      {IF ~parsed.ok
       THEN StepResult(
              AddMessage(t, "tool", <<"Error parsing model output: ">> \o parsed.error),
              recent, "parse_error", <<>>, EmptyDict, FALSE, "ValueError", FALSE, <<>>)
       ELSE Dispatch(t1, fmap, recent, guard, parsed.name, parsed.arguments, env)
       : t1 \in {AddMessage(t, "assistant", model_output)},
         parsed \in {Parse(model_output)}} : TRUE

Iteration_NoDiagnostic(t, fmap, recent, guard, model_output, env) ==
    CHOOSE r \in
      {IF ~parsed.ok
       THEN StepResult(t1, recent, "parse_error", <<>>, EmptyDict, FALSE,
                       "ValueError", FALSE, <<>>)
       ELSE Dispatch(t1, fmap, recent, guard, parsed.name, parsed.arguments, env)
       : t1 \in {AddMessage(t, "assistant", model_output)},
         parsed \in {Parse(model_output)}} : TRUE

\* the body of the for loop of ReactAgent.run, from the model's output on:
\* the assistant node, the parse and its except clause, then the dispatch
Iteration(t, fmap, recent, guard, model_output, env) ==
    CHOOSE r \in
      {IF ~parsed.ok
       THEN StepResult(
              AddMessage(t1, "tool", <<"Error parsing model output: ">> \o parsed.error),
              recent, "parse_error", <<>>, EmptyDict, FALSE, "ValueError", FALSE, <<>>)
       ELSE Dispatch(t1, fmap, recent, guard, parsed.name, parsed.arguments, env)
       : t1 \in {AddMessage(t, "assistant", model_output)},
         parsed \in {Parse(model_output)}} : TRUE

\* ------------------------------------------------------------------------
\* The texts the language model may produce
\* ------------------------------------------------------------------------

\* one argument block of the response format: marker, name line, value
RECURSIVE ArgBlocks(_)
ArgBlocks(args) ==
    IF args = <<>>
    THEN <<>>
    ELSE <<ARG_SEP, NL>> \o Head(args)[1] \o <<NL>> \o Head(args)[2] \o <<NL>>
         \o ArgBlocks(Tail(args))

\* a text in ResponseParser.response_format: thought, begin marker,
\* function name, argument blocks, end marker
FunctionCall(thought, name, args) ==
    thought \o <<NL, BEGIN_CALL, NL>> \o name \o <<NL>> \o ArgBlocks(args)
    \o <<END_CALL>>

FileA == <<"src", "/", "a.py">>

OutGarbage == <<"no", SP, "markers">>
OutFinish ==
    FunctionCall(<<"thinking...">>, <<"finish">>, <<<<<<"result">>, <<"done">>>>>>)
OutShowA ==
    FunctionCall(<<>>, <<"show_file">>, <<<<<<"file_path">>, FileA>>>>)
OutEditA ==
    FunctionCall(<<>>, <<"replace_in_file">>,
                 <<<<<<"file_path">>, FileA>>, <<<<"from_line">>, <<"1">>>>,
                   <<<<"to_line">>, <<"2">>>>, <<<<"content">>, <<"x">>>>>>)
OutEditLarge ==
    FunctionCall(<<>>, <<"replace_in_file">>,
                 <<<<<<"file_path">>, FileA>>, <<<<"from_line">>, <<"1">>>>,
                   <<<<"to_line">>, <<"122">>>>, <<<<"content">>, <<"x">>>>>>)
\* a second file, and the text of a staged diff that names FileA only
FileB == <<"src", "/", "b.py">>
DiffText == <<"diff", SP, "--git", SP, "a.py">>
OutShowB ==
    FunctionCall(<<>>, <<"show_file">>, <<<<<<"file_path">>, FileB>>>>)
OutStageDiff == FunctionCall(<<>>, <<"stage_and_diff">>, <<>>)
OutFinishDiff ==
    FunctionCall(<<>>, <<"finish">>, <<<<<<"result">>, DiffText>>>>)
\* calls that carry an argument the tool does not declare
OutShowExtra ==
    FunctionCall(<<>>, <<"show_file">>,
                 <<<<<<"verbose">>, <<"yes">>>>, <<<<"file_path">>, FileA>>>>)
OutFinishExtra ==
    FunctionCall(<<>>, <<"finish">>,
                 <<<<<<"result">>, <<"done">>>>, <<<<"confidence">>, <<"high">>>>>>)
OutFinishNoResult ==
    FunctionCall(<<>>, <<"finish">>, <<<<<<"summary">>, <<"done">>>>>>)
OutBacktrack(id) ==
    FunctionCall(<<>>, <<"add_instructions_and_backtrack">>,
                 <<<<<<"instructions">>, <<"NEW", SP, "INSTR">>>>,
                   <<<<"at_message_id">>, id>>>>)

\* the language models an agent is built with, each by the texts its
\* generate may return: DummyLLM and FinishLLM of the tests, and models
\* that edit files and that backtrack
LLMs == {"dummy", "finish", "editor", "backtracker"}

LLMOutputs(l) ==
    CASE l = "dummy" -> {<<>>}
      [] l = "finish" -> {OutFinish}
      [] l = "editor" -> {OutShowA, OutEditA, OutEditLarge, OutFinish}
      [] l = "differ" ->
            {OutStageDiff, OutShowA, OutShowB, OutFinish, OutFinishDiff}
      [] l = "sloppy" -> {OutShowExtra, OutFinishExtra, OutFinishNoResult}
      [] l = "returner" -> {OutStageDiff, OutBacktrack(<<"2">>), OutFinish}
      [] l = "rewinder" ->
            {OutGarbage, OutBacktrack(<<"0">>), OutBacktrack(<<"1">>),
             OutBacktrack(<<"2">>), OutFinish}
      [] l = "backtracker" ->
            {OutGarbage, OutBacktrack(<<"2">>), OutBacktrack(<<"3">>),
             OutBacktrack(<<"99">>), OutBacktrack(<<"x">>), OutFinish}

\* what the environment answers a command with: an output or a failure
EnvOutcomes ==
    {[raised |-> FALSE, value |-> <<"diff", SP, "--git", SP, "a.py">>],
     [raised |-> TRUE, value |-> <<"boom">>]}

\* the lists add_functions is called with (process_instance of run_agent.py),
\* one holding an object that is not callable, and one that registers
\* another callable under a name the first list uses
ToolLists ==
    {<<"run_bash_cmd", "add_instructions_and_backtrack", "replace_in_file",
       "show_file", "stage_and_diff", "show_file_range">>,
     <<"show_file", NotCallable, "replace_in_file">>,
     <<OtherShowFile>>}

\* the tokens the texts handed to the parser are made of
ParserTokens == {BEGIN_CALL, END_CALL, ARG_SEP, NL, SP, "f"}
\* the parts of texts in ResponseParser.response_format: thoughts, function
\* names, argument names, and argument values of one and of several lines,
\* with and without indentation and blank lines around them
Thoughts == {<<>>, <<SP, "think", SP, "more", NL>>}
Names == {<<"f">>, <<"g">>}
ArgNames == {<<"a">>, <<"b">>}
ArgValues ==
    {<<"v">>, <<"l1", NL, SP, "l2">>, <<SP, SP, "l1", NL, "l2">>, <<"x", SP>>,
     <<NL, "x", NL>>, <<>>}

Tasks == {<<"echo", SP, "task">>}
Contents == {<<"step">>}
Roles == {"assistant", "tool"}

\* ------------------------------------------------------------------------
\* Bounds of the exploration
\* ------------------------------------------------------------------------

\* direct calls of the agent's methods outside run, over the agent's life
MaxApiCalls == 2
\* calls of run on one agent
MaxRuns == 2
\* the length of the texts every one of which is handed to the parser
MaxTextLen == 4
\* the argument blocks of a text in the response format
MaxArgs == 2
MaxSegments == 3
\* the largest step budget asked of a model with more than one output
MaxSteps == 2
\* a run is begun only where two nodes a step fit in this many nodes,
\* and a direct call is made only on a tree of fewer nodes
MaxNodes == 7

\* ------------------------------------------------------------------------
\* State
\* ------------------------------------------------------------------------

VARIABLES
    id_to_message,       \* self.id_to_message
    root_message_id,     \* self.root_message_id
    current_message_id,  \* self.current_message_id
    function_map,        \* self.function_map
    recent_files,        \* self._recent_files
    llm,                 \* self.llm
    pc,                  \* where run is: "idle", "loop" or "done"
    max_steps,           \* run's argument max_steps
    step_limit,          \* run's local step_limit
    guard_empty_diff,    \* run's argument guard_empty_diff
    step,                \* iterations of the for loop begun
    model_calls,         \* calls of self.llm.generate in this run
    outcome,             \* how run ended: the value returned, the error raised
    last,                \* the last operation and what it did
    run_base,            \* len(self.id_to_message) when run was called
    inspected,           \* the files show_file/show_file_range were
                         \* dispatched on in this run
    abandoned,           \* the nodes the latest backtrack took off the
                         \* root-to-current path (none once run restarts)
    api_calls,           \* direct calls made so far
    runs,                \* calls of run so far
    parse_call,          \* the latest call of ResponseParser.parse: its
                         \* input, what it returned or raised, and how the
                         \* input was put together
    other                \* a second agent, made and run by another call of
                         \* process_instance: its attributes and where that
                         \* call stands

vars ==
    <<id_to_message, root_message_id, current_message_id, function_map,
      recent_files, llm, pc, max_steps, step_limit, guard_empty_diff, step,
      model_calls, outcome, last, run_base, inspected, abandoned, api_calls,
      runs, parse_call, other>>

self == Tree(id_to_message, root_message_id, current_message_id)

SetTree(t) ==
    /\ id_to_message' = t.id_to_message
    /\ root_message_id' = t.root_message_id
    /\ current_message_id' = t.current_message_id

Last(op, kind, fn, accepted, invoked, exc, value, id) ==
    [op |-> op, kind |-> kind, fn |-> fn, accepted |-> accepted,
     invoked |-> invoked, exc |-> exc, value |-> value, id |-> id,
     pre_len |-> Len(id_to_message), pre_current |-> current_message_id,
     arg |-> PyNone]

NoOutcome == [returned |-> FALSE, value |-> <<>>, error |-> <<>>]

\* the attributes ReactAgent.__init__ binds to an object made in that call
\* (a list, a dict, a set); an attribute that is not among them would be one
\* object seen by every agent
FreshAttributes_SharedRegistry == {"id_to_message", "_recent_files"}

FreshAttributes == {"id_to_message", "function_map", "_recent_files"}

\* the second agent after ReactAgent.__init__, before process_instance
\* registers its tools
NewAgent ==
    [id_to_message |-> InitTree.id_to_message,
     root_message_id |-> InitTree.root_message_id,
     current_message_id |-> InitTree.current_message_id,
     function_map |-> AddFunctionsLoop(EmptyDict, <<"finish">>).function_map,
     recent_files |-> {},
     pc |-> "new", step |-> 0, limit |-> 0, outcome |-> NoOutcome]

\* the second agent as it is once the first has written its own attributes:
\* an attribute that is one object for both shows the first agent's writes
Aliased(o, messages, fmap, recent) ==
    [o EXCEPT
       !.id_to_message = IF "id_to_message" \in FreshAttributes THEN @ ELSE messages,
       !.function_map = IF "function_map" \in FreshAttributes THEN @ ELSE fmap,
       !.recent_files = IF "_recent_files" \in FreshAttributes THEN @ ELSE recent]

\* no call of parse made yet
NoParse ==
    [called |-> FALSE, input |-> PyNone, result |-> ParseError(<<>>),
     kind |-> "none", calls |-> <<>>, segments |-> <<>>]

InitWith(models) ==
    /\ id_to_message = InitTree.id_to_message
    /\ root_message_id = InitTree.root_message_id
    /\ current_message_id = InitTree.current_message_id
    /\ function_map = AddFunctionsLoop(EmptyDict, <<"finish">>).function_map
    /\ recent_files = {}
    /\ llm \in models
    /\ pc = "idle"
    /\ max_steps = 0
    /\ step_limit = 0
    /\ guard_empty_diff = FALSE
    /\ step = 0
    /\ model_calls = 0
    /\ outcome = NoOutcome
    /\ last = [op |-> "init", kind |-> "ok", fn |-> <<>>, accepted |-> EmptyDict,
               invoked |-> FALSE, exc |-> "none", value |-> <<>>, id |-> 2,
               pre_len |-> 0, pre_current |-> -1, arg |-> PyNone]
    /\ run_base = 0
    /\ inspected = {}
    /\ abandoned = {}
    /\ api_calls = 0
    /\ runs = 0
    /\ parse_call = NoParse
    /\ other = NewAgent

Init == InitWith(LLMs)

runVars ==
    <<pc, max_steps, step_limit, guard_empty_diff, step, model_calls, outcome,
      run_base, inspected>>

\* a direct call happens while run is not executing
ApiEnabled ==
    pc # "loop" /\ api_calls < MaxApiCalls /\ Len(id_to_message) < MaxNodes

\* ------------------------------------------------------------------------
\* Operations
\* ------------------------------------------------------------------------

add_message ==
    /\ ApiEnabled
    /\ \E role \in Roles, content \in Contents :
          /\ SetTree(AddMessage(self, role, content))
          /\ last' = Last("add_message", "ok", <<>>, EmptyDict, FALSE, "none",
                          content, Len(id_to_message))
    /\ api_calls' = api_calls + 1
    /\ UNCHANGED <<function_map, recent_files, llm, runVars, abandoned, runs,
                   parse_call>>
    /\ other' = Aliased(other, id_to_message', function_map', recent_files')

set_message_content ==
    /\ ApiEnabled
    /\ \E message_id \in -1..Len(id_to_message), content \in Contents :
          IF SetContentRaises(self, message_id)
          THEN /\ UNCHANGED <<id_to_message, root_message_id, current_message_id>>
               /\ last' = Last("set_message_content", "raised", <<>>, EmptyDict,
                               FALSE, "IndexError", content, message_id)
          ELSE /\ SetTree(SetMessageContent(self, message_id, content))
               /\ last' = Last("set_message_content", "ok", <<>>, EmptyDict,
                               FALSE, "none", content, message_id)
    /\ api_calls' = api_calls + 1
    /\ UNCHANGED <<function_map, recent_files, llm, runVars, abandoned, runs,
                   parse_call>>
    /\ other' = Aliased(other, id_to_message', function_map', recent_files')

set_instructions ==
    /\ ApiEnabled
    /\ \E instructions \in Contents :
          /\ SetTree(SetMessageContent(self, instructions_message_id, instructions))
          /\ last' = Last("set_instructions", "ok", <<>>, EmptyDict, FALSE, "none",
                          instructions, instructions_message_id)
    /\ api_calls' = api_calls + 1
    /\ UNCHANGED <<function_map, recent_files, llm, runVars, abandoned, runs,
                   parse_call>>
    /\ other' = Aliased(other, id_to_message', function_map', recent_files')

\* the ids a direct caller may pass: ints in and out of range, and strs
BacktrackIds ==
    {PyInt(i) : i \in -1..Len(id_to_message)}
        \cup {PyStr(<<"x">>), PyFloat(5, 2)}

add_instructions_and_backtrack ==
    /\ ApiEnabled
    /\ \E instructions \in Contents, at_message_id \in BacktrackIds :
          LET r == Backtrack(self, instructions, at_message_id)
          IN /\ SetTree(r.tree)
             /\ abandoned' = IF r.raised
                              THEN abandoned
                              ELSE PathSet(self) \ PathSet(r.tree)
             /\ last' = [Last("add_instructions_and_backtrack",
                              IF r.raised THEN "raised" ELSE "ok", <<>>, EmptyDict,
                              FALSE, r.exc, r.value,
                              IF IntOk(at_message_id) THEN IntOf(at_message_id) ELSE None)
                         EXCEPT !.arg = at_message_id]
    /\ api_calls' = api_calls + 1
    /\ UNCHANGED <<function_map, recent_files, llm, runVars, runs,
                   parse_call>>
    /\ other' = Aliased(other, id_to_message', function_map', recent_files')

add_functions ==
    /\ ApiEnabled
    /\ \E tools \in ToolLists :
          LET r == AddFunctionsLoop(function_map, tools)
          IN /\ function_map' = r.function_map
             /\ last' = Last("add_functions", IF r.raised THEN "raised" ELSE "ok",
                             <<>>, EmptyDict, FALSE,
                             IF r.raised THEN "TypeError" ELSE "none", tools, None)
    /\ api_calls' = api_calls + 1
    /\ UNCHANGED <<id_to_message, root_message_id, current_message_id,
                   recent_files, llm, runVars, abandoned, runs,
                   parse_call>>
    /\ other' = Aliased(other, id_to_message', function_map', recent_files')

StepLimit_NoCeiling(requested) == requested

\* step_limit = min(int(max_steps), 100)
StepLimit(requested) == IF requested < HardCeiling THEN requested ELSE HardCeiling

\* a budget of one step more, asked of a new agent only
LongBudget == MaxSteps + 1

\* the exploration bound on where a run begins
Fits(requested) ==
    \/ requested <= 0
    \/ requested >= HardCeiling
    \/ Len(id_to_message) + 2 * StepLimit(requested) <= MaxNodes
    \/ /\ requested = LongBudget
       /\ runs = 0
       /\ Len(id_to_message) = Len(InitTree.id_to_message)

RunBegin_KeepCurrent(budgets) ==
    /\ pc # "loop"
    /\ runs < MaxRuns
    /\ \E task \in Tasks, requested \in budgets, guard \in BOOLEAN :
          /\ Fits(requested)
          /\ LET t1 == SetMessageContent(self, user_message_id, task)
             IN /\ SetTree(t1)
                /\ max_steps' = requested
                /\ step_limit' = StepLimit(requested)
                /\ guard_empty_diff' = guard
                /\ last' = Last("run", "begin", <<>>, EmptyDict, FALSE, "none",
                                task, requested)
    /\ pc' = "loop"
    /\ step' = 0
    /\ model_calls' = 0
    /\ outcome' = NoOutcome
    /\ run_base' = Len(id_to_message)
    /\ inspected' = {}
    /\ abandoned' = {}
    /\ runs' = runs + 1
    /\ UNCHANGED <<function_map, recent_files, llm, api_calls,
                   parse_call>>
    /\ other' = Aliased(other, id_to_message', function_map', recent_files')

\* ReactAgent.run up to the for loop, for a budget in budgets
RunBegin(budgets) ==
    /\ pc # "loop"
    /\ runs < MaxRuns
    /\ \E task \in Tasks, requested \in budgets, guard \in BOOLEAN :
          /\ Fits(requested)
          /\ LET t1 == SetMessageContent(self, user_message_id, task)
             IN /\ SetTree(Tree(t1.id_to_message, t1.root_message_id,
                                instructions_message_id))
                /\ max_steps' = requested
                /\ step_limit' = StepLimit(requested)
                /\ guard_empty_diff' = guard
                /\ last' = Last("run", "begin", <<>>, EmptyDict, FALSE, "none",
                                task, requested)
    /\ pc' = "loop"
    /\ step' = 0
    /\ model_calls' = 0
    /\ outcome' = NoOutcome
    /\ run_base' = Len(id_to_message)
    /\ inspected' = {}
    /\ abandoned' = {}
    /\ runs' = runs + 1
    /\ UNCHANGED <<function_map, recent_files, llm, api_calls,
                   parse_call>>
    /\ other' = Aliased(other, id_to_message', function_map', recent_files')

run_start == RunBegin(0..MaxSteps)

\* the first run of an agent to which the caller has added no message, with
\* room for a step, a backtrack and a finish
run_start_long ==
    /\ runs = 0
    /\ Len(id_to_message) = Len(InitTree.id_to_message)
    /\ RunBegin({LongBudget})

\* budgets at and beyond the ceiling, and a negative one
DeepBudgets == {-1, HardCeiling, HardCeiling + 1}

\* run with such a budget; one up to the ceiling is explored on a new agent
\* whose model has a single output
run_start_deep ==
    /\ Cardinality(LLMOutputs(llm)) = 1
    /\ api_calls = 0
    /\ runs = 0
    /\ RunBegin(DeepBudgets)

\* the caller fills the history of a new agent with tool messages by
\* add_message: a first one that may be a diff, then plain ones, up to two
\* more than the lookback scans
add_tool_messages ==
    /\ pc # "loop"
    /\ runs = 0
    /\ api_calls = 0
    /\ Cardinality(LLMOutputs(llm)) = 1
    /\ Len(id_to_message) < Len(InitTree.id_to_message) + LookbackWindow + 2
    /\ \E content \in (IF Len(id_to_message) = Len(InitTree.id_to_message)
                        THEN {DiffText} \cup Contents
                        ELSE Contents) :
          /\ SetTree(AddMessage(self, "tool", content))
          /\ last' = Last("add_message", "ok", <<>>, EmptyDict, FALSE, "none",
                          content, Len(id_to_message))
    /\ UNCHANGED <<function_map, recent_files, llm, runVars, abandoned, api_calls,
                   runs,
                   parse_call>>
    /\ other' = Aliased(other, id_to_message', function_map', recent_files')

\* a call [thought, name, args] in the response format, args a sequence of
\* <<name, value>>
ArgLists(n) == UNION {[1..k -> ArgNames \X ArgValues] : k \in 0..n}
Calls(n) == [thought : Thoughts, name : Names, args : ArgLists(n)]
CallText(c) == FunctionCall(c.thought, c.name, c.args)

\* what may stand between two argument separators, or between the last one
\* and the end marker: nothing or white space only, a name line and a value,
\* a name with no line break after it, and a first line without a name
ArgSegments ==
    {<<>>, <<NL>>, <<SP>>, <<NL, SP, NL>>,
     <<NL, "a", NL, "v", NL>>, <<"b", NL, "v">>, <<NL, "a", NL>>,
     <<NL, "a">>, <<"a", SP, "v">>,
     <<SP, NL, "v">>, <<NL, SP, NL, "v", NL>>}

RECURSIVE JoinSegments(_)
JoinSegments(segments) ==
    IF segments = <<>> THEN <<>>
    ELSE <<ARG_SEP>> \o Head(segments)
         \o CHOOSE r \in {JoinSegments(rest) : rest \in {Tail(segments)}} : TRUE

\* a call of function f whose argument part is the given segments
SegmentsText(segments) ==
    <<BEGIN_CALL, NL, "f", NL>> \o JoinSegments(segments) \o <<END_CALL>>

\* what parse is handed: every text of up to MaxTextLen tokens, every call
\* in the response format, an earlier call followed by a second, a call
\* made of up to MaxSegments argument segments, and a value that is not a
\* str
ParserInputs ==
    {[input |-> PyStr(text), kind |-> "free", calls |-> <<>>, segments |-> <<>>] :
       text \in UNION {[1..k -> ParserTokens] : k \in 0..MaxTextLen}}
    \cup {[input |-> PyStr(CallText(c)), kind |-> "call", calls |-> <<c>>,
           segments |-> <<>>] :
            c \in Calls(MaxArgs)}
    \cup {[input |-> PyStr(CallText(c) \o <<NL>> \o CallText(d)),
           kind |-> "two_calls", calls |-> <<c, d>>, segments |-> <<>>] :
            c \in {x \in Calls(1) : \A k \in 1..Len(x.args) : x.args[k][2] = <<"v">>},
            d \in Calls(1)}
    \cup {[input |-> PyStr(SegmentsText(segs)), kind |-> "segments",
           calls |-> <<>>, segments |-> segs] :
            segs \in UNION {[1..k -> ArgSegments] : k \in 1..MaxSegments}}
    \cup {[input |-> PyNone, kind |-> "not_str", calls |-> <<>>, segments |-> <<>>]}

\* ResponseParser.parse from its first line: the isinstance test, then the
\* parse of the text
ParseValue(val) ==
    IF val.t # "str"
    THEN ParseError(<<"Input must be a string">>)
    ELSE Parse(val.s)

\* a call of ResponseParser.parse; the parser keeps no state, so one call
\* is explored for each input
parse ==
    /\ ~parse_call.called
    /\ \E in \in ParserInputs :
          \E r \in {ParseValue(in.input)} :
             parse_call' = [called |-> TRUE, input |-> in.input, result |-> r,
                            kind |-> in.kind, calls |-> in.calls,
                            segments |-> in.segments]
    /\ UNCHANGED <<id_to_message, root_message_id, current_message_id,
                   function_map, recent_files, llm, pc, max_steps, step_limit,
                   guard_empty_diff, step, model_calls, outcome, last, run_base,
                   inspected, abandoned, api_calls, runs>>
    /\ other' = Aliased(other, id_to_message', function_map', recent_files')

\* what the second call of process_instance does: its tools, its task and
\* step budget, the outputs of its model in order, and what its environment
\* answers
OtherTools == <<"run_bash_cmd">>
OtherTask == <<"other", SP, "task">>
OtherScript == <<OutShowA, OutFinish>>
OtherEnv == [raised |-> FALSE, value |-> <<"ok">>]
OtherBudgets == {1, Len(OtherScript)}

\* the first agent's attributes once the second has written its own
OtherWrites(o) ==
    /\ id_to_message' = IF "id_to_message" \in FreshAttributes
                        THEN id_to_message ELSE o.id_to_message
    /\ function_map' = IF "function_map" \in FreshAttributes
                       THEN function_map ELSE o.function_map
    /\ recent_files' = IF "_recent_files" \in FreshAttributes
                       THEN recent_files ELSE o.recent_files
    /\ UNCHANGED <<root_message_id, current_message_id, llm, runVars, last,
                   abandoned, api_calls, runs, parse_call>>

\* process_instance: agent.add_functions(tools)
OtherAddFunctions(o) ==
    CHOOSE n \in {[o EXCEPT !.function_map = r.function_map, !.pc = "idle"]
                  : r \in {AddFunctionsLoop(o.function_map, OtherTools)}} : TRUE

\* process_instance: agent.run(task, max_steps), up to the for loop
OtherRunStart(o, max_steps_arg) ==
    CHOOSE n \in
      {[o EXCEPT !.id_to_message = t1.id_to_message,
                 !.current_message_id = instructions_message_id,
                 !.pc = "loop", !.step = 0, !.limit = max_steps_arg,
                 !.outcome = NoOutcome]
       : t1 \in {SetMessageContent(
                    Tree(o.id_to_message, o.root_message_id, o.current_message_id),
                    user_message_id, OtherTask)}} : TRUE

\* one iteration of the second agent's loop
OtherRunStep(o) ==
    CHOOSE n \in
      {[o EXCEPT !.id_to_message = r.tree.id_to_message,
                 !.root_message_id = r.tree.root_message_id,
                 !.current_message_id = r.tree.current_message_id,
                 !.recent_files = r.recent,
                 !.step = @ + 1,
                 !.pc = IF r.returned THEN "done" ELSE "loop",
                 !.outcome = IF r.returned
                             THEN [@ EXCEPT !.returned = TRUE, !.value = r.value]
                             ELSE @]
       : r \in {Iteration(Tree(o.id_to_message, o.root_message_id,
                               o.current_message_id),
                          o.function_map, o.recent_files, FALSE,
                          OtherScript[o.step + 1], OtherEnv)}} : TRUE

\* the second agent's budget is used up
OtherRunExhausted(o) ==
    [o EXCEPT !.pc = "done",
              !.outcome = [@ EXCEPT
                 !.error = <<"Step limit reached without calling finish">>]]

other_add_functions ==
    /\ other.pc = "new"
    /\ other' = OtherAddFunctions(other)
    /\ OtherWrites(other')

other_run_start ==
    /\ other.pc = "idle"
    /\ \E max_steps_arg \in OtherBudgets :
          other' = OtherRunStart(other, max_steps_arg)
    /\ OtherWrites(other')

other_run_step ==
    /\ other.pc = "loop"
    /\ other.step < other.limit
    /\ other' = OtherRunStep(other)
    /\ OtherWrites(other')

other_run_exhausted ==
    /\ other.pc = "loop"
    /\ other.step >= other.limit
    /\ other' = OtherRunExhausted(other)
    /\ OtherWrites(other')

\* the second call of process_instance with no other agent about: the
\* second agent from where it stands to the end of its run
RECURSIVE RunAlone(_)
RunAlone(o) ==
    IF o.pc = "done" THEN o
    ELSE IF o.step >= o.limit THEN OtherRunExhausted(o)
    ELSE RunAlone(OtherRunStep(o))

\* one iteration of the for loop: for _ in range(step_limit)
run_step ==
    /\ pc = "loop"
    /\ step < step_limit
    /\ \E model_output \in LLMOutputs(llm), env \in EnvOutcomes :
          \E r \in {Iteration(self, function_map, recent_files, guard_empty_diff,
                              model_output, env)} :
             /\ SetTree(r.tree)
             /\ recent_files' = r.recent
             /\ last' = Last("step", r.kind, r.fn, r.accepted, r.invoked, r.exc,
                             model_output, step)
             /\ pc' = IF r.returned THEN "done" ELSE "loop"
             /\ outcome' = IF r.returned
                           THEN [outcome EXCEPT !.returned = TRUE, !.value = r.value]
                           ELSE outcome
             /\ inspected' = IF r.fn \in {<<"show_file">>, <<"show_file_range">>}
                                 /\ r.kind # "unknown_function"
                                 /\ IsFileArg(r.accepted)
                              THEN inspected \cup {r.accepted[<<"file_path">>]}
                              ELSE inspected
             /\ abandoned' = IF r.kind = "tool_ok"
                                 /\ r.fn = <<"add_instructions_and_backtrack">>
                              THEN (PathSet(self) \cup {Len(id_to_message)})
                                      \ PathSet(r.tree)
                              ELSE abandoned
    /\ step' = step + 1
    /\ model_calls' = model_calls + 1
    /\ UNCHANGED <<function_map, llm, max_steps, step_limit, guard_empty_diff,
                   run_base, api_calls, runs,
                   parse_call>>
    /\ other' = Aliased(other, id_to_message', function_map', recent_files')

run_exhausted_AfterReturn ==
    /\ pc \in {"loop", "done"}
    /\ step >= step_limit
    /\ pc' = "done"
    /\ outcome' = [outcome EXCEPT
                     !.error = <<"Step limit reached without calling finish">>]
    /\ last' = Last("run", "exhausted", <<>>, EmptyDict, FALSE, "RuntimeError",
                    <<>>, step)
    /\ UNCHANGED <<id_to_message, root_message_id, current_message_id,
                   function_map, recent_files, llm, max_steps, step_limit,
                   guard_empty_diff, step, model_calls, run_base, inspected,
                   abandoned, api_calls, runs,
                   parse_call>>
    /\ other' = Aliased(other, id_to_message', function_map', recent_files')

\* the loop is over: raise RuntimeError("Step limit reached without calling finish")
run_exhausted ==
    /\ pc = "loop"
    /\ step >= step_limit
    /\ pc' = "done"
    /\ outcome' = [outcome EXCEPT
                     !.error = <<"Step limit reached without calling finish">>]
    /\ last' = Last("run", "exhausted", <<>>, EmptyDict, FALSE, "RuntimeError",
                    <<>>, step)
    /\ UNCHANGED <<id_to_message, root_message_id, current_message_id,
                   function_map, recent_files, llm, max_steps, step_limit,
                   guard_empty_diff, step, model_calls, run_base, inspected,
                   abandoned, api_calls, runs,
                   parse_call>>
    /\ other' = Aliased(other, id_to_message', function_map', recent_files')

Next ==
    \/ add_message
    \/ set_message_content
    \/ set_instructions
    \/ add_instructions_and_backtrack
    \/ add_functions
    \/ run_start
    \/ run_step
    \/ run_exhausted

Spec == Init /\ [][Next]_vars

\* an agent whose model edits files
SpecEditor == InitWith({"editor"}) /\ [][Next]_vars

\* an agent whose model names arguments the tools do not declare
SpecSloppy == InitWith({"sloppy"}) /\ [][Next]_vars

\* an agent whose model stages diffs and finishes, and the agent of the
\* tests on a history the caller has filled
NextDiffer == Next \/ add_tool_messages \/ run_start_deep

SpecDiffer == InitWith({"differ", "finish"}) /\ [][NextDiffer]_vars

\* the parser alone, called on the texts of ParserInputs
NextParser == parse

SpecParser == InitWith({"dummy"}) /\ [][NextParser]_vars

\* two agents of two calls of process_instance, their steps interleaved in
\* any order
NextPair ==
    \/ Next
    \/ other_add_functions
    \/ other_run_start
    \/ other_run_step
    \/ other_run_exhausted

SpecPair == InitWith({"editor"}) /\ [][NextPair]_vars

\* an agent whose model stages a diff, backtracks and finishes
NextReturner == Next \/ run_start_long

SpecReturner == InitWith({"returner"}) /\ [][NextReturner]_vars

\* an agent whose model backtracks to the nodes made by the constructor
SpecRewinder == InitWith({"rewinder"}) /\ [][Next]_vars

\* an agent whose model backtracks
SpecBacktracker == InitWith({"backtracker"}) /\ [][Next]_vars

\* the agents of the tests (DummyLLM, FinishLLM), with budgets up to and
\* beyond the ceiling
NextCeiling == Next \/ run_start_deep

SpecCeiling == InitWith({"dummy", "finish"}) /\ [][NextCeiling]_vars

\* the loop of run moves on: an iteration is made or run ends.  In a state
\* with pc = "loop" one of run_step and run_exhausted can be taken, and they
\* are the only steps that change step or pc there.
LoopAdvance ==
    /\ pc = "loop"
    /\ step' \in {step, step + 1}
    /\ pc' \in {"loop", "done"}

\* every specification above lets run stop anywhere; here each model call
\* and each tool call returns, so the loop moves on while run executes
SpecFair ==
    /\ Init
    /\ [][Next]_vars
    /\ WF_<<step, pc>>(LoopAdvance)

\* ------------------------------------------------------------------------
\* Properties
\* ------------------------------------------------------------------------

\* run returned the terminating action's payload
Finished == pc = "done" /\ outcome.returned
\* run raised the step-limit error
StepExhausted == pc = "done" /\ outcome.error # <<>>

\* the state is the one a loop step has just produced
AfterStep == last.op = "step"
\* the node with the largest id
Newest == Msg(self, Len(id_to_message) - 1)
\* the step before the state dispatched a replace_in_file call
EditStep ==
    /\ AfterStep
    /\ last.fn = <<"replace_in_file">>
    /\ last.kind \notin {"parse_error", "unknown_function"}

\* C1: a replace_in_file step whose file_path no show_file / show_file_range
\* step of this run was dispatched on does not call the tool, and appends a
\* tool node holding the "Edit blocked" text.
C1_UninspectedEditRejected ==
    (/\ EditStep
     /\ IsFileArg(last.accepted)
     /\ last.accepted[<<"file_path">>] \notin inspected)
    => /\ ~last.invoked
       /\ Newest.role = "tool"
       /\ Contains(Newest.content,
                   <<"Edit blocked: inspect the file first with show_file/show_file_range.">>)

\* C2: a replace_in_file step with integer lines and to_line - from_line >
\* 120 does not call the tool, and appends an error tool node.
C2_LargeEditRejected ==
    (/\ EditStep
     /\ IntOk(Get(last.accepted, "from_line"))
     /\ IntOk(Get(last.accepted, "to_line"))
     /\ IntOf(Get(last.accepted, "to_line")) - IntOf(Get(last.accepted, "from_line"))
           > LargeEdit)
    => /\ ~last.invoked
       /\ Newest.role = "tool"
       /\ StartsWith(Newest.content, <<"Error executing ">>)

\* C3: a run whose model calls and tool calls return ends; it ends as
\* FINISHED, with the finish call's payload returned, or as STEP_EXHAUSTED,
\* never as both; and once it has ended it takes no further step.
C3_RunEndsInOneOutcome ==
    /\ [](pc = "loop" => <>(pc = "done"))
    /\ [](pc = "done" => (Finished /\ ~StepExhausted) \/ (StepExhausted /\ ~Finished))
    /\ [](pc # "done" => ~outcome.returned /\ outcome.error = <<>>)
    /\ [](AfterStep /\ last.kind = "finished"
            => Finished /\ outcome.value = last.accepted[<<"result">>])
    /\ [][pc = "done" /\ pc' = "done" => UNCHANGED <<step, model_calls, outcome>>]_vars

\* a run that ended as FINISHED at its second step
C3_Witness == Finished /\ step = 2 /\ last.op = "step"

\* C4: a run with budget >= 1 makes at most min(max_steps, 100) model calls;
\* STEP_EXHAUSTED is raised exactly when that many steps are done and none
\* reached FINISHED; with a budget <= 0 the run is exhausted with no model
\* call and no node appended.
C4_StepCeiling ==
    LET limit == MaxOf({0, MinOf({max_steps, HardCeiling})})
    IN /\ max_steps >= 1 => model_calls <= MinOf({max_steps, HardCeiling})
       /\ model_calls = step
       /\ StepExhausted => model_calls = limit /\ ~outcome.returned
       /\ pc = "loop" /\ model_calls = limit => (ENABLED run_exhausted) /\ ~(ENABLED run_step)
       /\ pc = "loop" /\ model_calls < limit => ~(ENABLED run_exhausted)
       /\ last.op = "run" /\ last.kind = "exhausted" /\ max_steps <= 0
             => model_calls = 0 /\ Len(id_to_message) = run_base

\* a run asked for more than the ceiling, exhausted at the ceiling
C4_Witness ==
    /\ StepExhausted
    /\ max_steps = HardCeiling + 1
    /\ model_calls = HardCeiling
    /\ last.kind = "exhausted"

\* C5: when the first output of a run with budget >= 1 parses to a finish
\* call with argument result = r and the empty-diff guard is off, the run
\* returns r after one model call, with one assistant node and one tool
\* node appended.
C5_FirstFinishReturns ==
    LET parsed == Parse(last.value)
    IN (/\ AfterStep
        /\ last.id = 0
        /\ max_steps >= 1
        /\ ~guard_empty_diff
        /\ parsed.ok
        /\ parsed.name = <<"finish">>
        /\ Has(parsed.arguments, <<"result">>))
       => /\ Finished
          /\ outcome.value = parsed.arguments[<<"result">>]
          /\ model_calls = 1
          /\ Len(id_to_message) = run_base + 2
          /\ Msg(self, run_base).role = "assistant"
          /\ Msg(self, run_base + 1).role = "tool"

\* a run with the largest budget that returned "done" at its first step
C5_Witness ==
    /\ AfterStep
    /\ last.id = 0
    /\ last.value = OutFinish
    /\ ~guard_empty_diff
    /\ max_steps = HardCeiling + 1
    /\ outcome.value = <<"done">>

\* C6: a step whose output does not parse appends the assistant node and a
\* tool node "Error parsing model output: <error>", calls no tool, leaves
\* the run going; a run of at least one step whose every output is
\* unparsable takes min(max_steps, 100) steps and is then exhausted.
C6_ParseFailureContinues ==
    /\ (AfterStep /\ ~Parse(last.value).ok)
       => /\ last.kind = "parse_error"
          /\ ~last.invoked
          /\ Len(id_to_message) = last.pre_len + 2
          /\ Newest.role = "tool"
          /\ Newest.content
                = <<"Error parsing model output: ">> \o Parse(last.value).error
          /\ pc = "loop"
          /\ outcome = NoOutcome
          /\ step = last.id + 1
    /\ (llm = "dummy" /\ pc = "done" /\ max_steps >= 1)
       => /\ StepExhausted
          /\ ~outcome.returned
          /\ step = MinOf({max_steps, HardCeiling})
    /\ (llm = "dummy" /\ pc = "loop" /\ step = MinOf({max_steps, HardCeiling}))
       => (ENABLED run_exhausted) /\ ~(ENABLED run_step)

\* a run of unparsable outputs exhausted at the ceiling
C6_Witness ==
    /\ llm = "dummy"
    /\ StepExhausted
    /\ max_steps = HardCeiling
    /\ step = HardCeiling
    /\ Newest.content = <<"Error parsing model output: ">> \o Parse(<<>>).error

\* the ids of the nodes
Ids == 0..(Len(id_to_message) - 1)

\* C7: the node at index i has unique_id i; exactly one node has parent
\* None and it is the root; every other node's parent id is an id smaller
\* than its own.
C7_IdsDenseParentsSmaller ==
    /\ \A i \in Ids : Msg(self, i).unique_id = i
    /\ {i \in Ids : Msg(self, i).parent = None} = {root_message_id}
    /\ \A i \in Ids \ {root_message_id} :
          Msg(self, i).parent \in 0..(i - 1)

\* a node appended after a backtrack: its parent is not the node before it
C7_Witness ==
    \E i \in Ids : i >= 4 /\ Msg(self, i).parent # None /\ Msg(self, i).parent < i - 1

\* the number of positions of children list c that hold id i
Occurrences(c, i) == Cardinality({k \in 1..Len(c) : c[k] = i})

\* C8: every non-root id is exactly once in its parent's children list and
\* in no other children list; every children list is increasing.
C8_ChildrenMatchParents ==
    /\ \A i \in Ids \ {root_message_id} :
          \A p \in Ids :
             Occurrences(Msg(self, p).children, i)
                = IF p = Msg(self, i).parent THEN 1 ELSE 0
    /\ \A p \in Ids :
          LET c == Msg(self, p).children
          IN \A k \in 1..(Len(c) - 1) : c[k] < c[k + 1]

\* a node with two children
C8_Witness == \E p \in Ids : Len(Msg(self, p).children) >= 2

\* C9: in every state current_message_id is the id of a node.
C9_CurrentValid ==
    current_message_id >= 0 /\ current_message_id < Len(id_to_message)

\* a step of run whose backtrack call was refused: id out of range
C9_Witness ==
    /\ AfterStep
    /\ last.fn = <<"add_instructions_and_backtrack">>
    /\ last.invoked
    /\ last.exc = "IndexError"

\* what a call add_message(role, content) leaves, against the state before
AddMessagePost ==
    LET n == Len(id_to_message)
        new == id_to_message'[n + 1]
    IN /\ Len(id_to_message') = n + 1
       /\ new.unique_id = n
       /\ new.parent = current_message_id
       /\ new.children = <<>>
       /\ new.role \in Roles /\ new.content \in Contents
       /\ id_to_message'[current_message_id + 1].children
             = Append(id_to_message[current_message_id + 1].children, n)
       /\ current_message_id' = n
       /\ last'.id = n
       /\ root_message_id' = root_message_id
       /\ \A i \in 1..n :
             /\ id_to_message'[i].role = id_to_message[i].role
             /\ id_to_message'[i].content = id_to_message[i].content
             /\ id_to_message'[i].parent = id_to_message[i].parent
             /\ id_to_message'[i].unique_id = id_to_message[i].unique_id
             /\ i # current_message_id + 1
                   => id_to_message'[i].children = id_to_message[i].children

\* C10: add_message creates one node, its id the previous node count and
\* its parent the previous current (None for the first node, which becomes
\* the root), appends the id to the parent's children, makes it current and
\* returns it; no other node's role, content or parent changes.
C10_AddMessageAppends ==
    /\ [][add_message => AddMessagePost]_vars
    /\ [](\A role \in Roles, content \in Contents :
            LET t == AddMessage(EmptyTree, role, content)
            IN /\ Len(t.id_to_message) = 1
               /\ Msg(t, 0).parent = None
               /\ Msg(t, 0).unique_id = 0
               /\ t.root_message_id = 0
               /\ t.current_message_id = 0)

\* add_message called after a backtrack: the parent is not the newest node
C10_Witness ==
    /\ last.op = "add_message"
    /\ last.pre_current < last.pre_len - 1
    /\ Newest.parent = last.pre_current

\* the state is the one a successful direct backtrack has just produced
AfterBacktrack == last.op = "add_instructions_and_backtrack" /\ last.kind = "ok"

\* C11 as stated: a node a backtrack took off the path is in no later
\* context, whatever is called next.
C11_AbandonedNeverReturn ==
    [][\A j \in abandoned :
          j \notin PathSet(Tree(id_to_message', root_message_id',
                                current_message_id'))]_vars

\* C11, amended: a backtrack to a valid id puts current at id, so the next
\* appended node has parent id; the nodes the backtrack took off the path
\* are in no context until the next backtrack or the next call of run, and
\* they stay in the store under their ids.
C11_BacktrackThenAppend ==
    /\ [](AfterBacktrack => current_message_id = last.id)
    /\ [][Len(id_to_message') > Len(id_to_message)
            => id_to_message'[Len(id_to_message) + 1].parent = current_message_id]_vars
    /\ [](abandoned \cap PathSet(self) = {})
    /\ [](\A j \in abandoned :
             j \in Ids /\ Msg(self, j).unique_id = j /\ j \notin PathSet(self))

\* an append after a backtrack that took nodes off the path
C11_Witness ==
    /\ last.op = "add_message"
    /\ abandoned # {}
    /\ Newest.parent \notin abandoned
    /\ Newest.parent < Len(id_to_message) - 2

\* C12: get_context renders the nodes of the parent chain from current
\* up to the root, each once, root first and current last, each as the
\* rendering of that node, and no node that is off that chain.
C12_ContextIsAncestorPath ==
    LET ctx == GetContext(self, function_map)
        n == Len(ctx)
        rendered == {ctx[k].id : k \in 1..n}
    IN /\ n >= 1
       /\ ctx[1].id = root_message_id
       /\ ctx[n].id = current_message_id
       /\ \A k \in 1..(n - 1) : Msg(self, ctx[k + 1].id).parent = ctx[k].id
       /\ \A k \in 1..n : \A l \in (k + 1)..n : ctx[k].id # ctx[l].id
       /\ \A k \in 1..n :
             /\ ctx[k].id \in Ids
             /\ ctx[k].role = Msg(self, ctx[k].id).role
             /\ ctx[k].content = Msg(self, ctx[k].id).content \o <<NL>>
       /\ \A j \in Ids :
             j \in rendered
                <=> (j = current_message_id
                     \/ \E c \in rendered : Msg(self, c).parent = j)

\* a context that leaves out nodes of the store: current is not the newest
\* node and has a sibling branch
C12_Witness ==
    /\ Len(GetContext(self, function_map)) >= 4
    /\ Len(GetContext(self, function_map)) < Len(id_to_message) - 1
    /\ current_message_id < Len(id_to_message) - 1

\* C13: set_message_content with an id of the store replaces the content of
\* that node and nothing else (current, the number of nodes, and every
\* node's role, parent, children and id stay); with an id below 0 or at or
\* above the number of nodes it raises IndexError and leaves the tree as it
\* was.
C13_SetContentOnlyContent ==
    [][last'.op = "set_message_content"
       => IF last'.id \in 0..(Len(id_to_message) - 1)
          THEN /\ last'.kind = "ok"
               /\ Len(id_to_message') = Len(id_to_message)
               /\ current_message_id' = current_message_id
               /\ root_message_id' = root_message_id
               /\ id_to_message'[last'.id + 1].content = last'.value
               /\ \A k \in 1..Len(id_to_message) :
                     /\ id_to_message'[k].role = id_to_message[k].role
                     /\ id_to_message'[k].parent = id_to_message[k].parent
                     /\ id_to_message'[k].children = id_to_message[k].children
                     /\ id_to_message'[k].unique_id = id_to_message[k].unique_id
                     /\ k # last'.id + 1 => id_to_message'[k] = id_to_message[k]
          ELSE /\ last'.kind = "raised"
               /\ last'.exc = "IndexError"
               /\ UNCHANGED <<id_to_message, root_message_id, current_message_id>>]_vars

\* the content of a node added after construction, which is not current,
\* has just been replaced
C13_Witness ==
    /\ last.op = "set_message_content"
    /\ last.kind = "ok"
    /\ last.id >= 3
    /\ last.id # current_message_id
    /\ Msg(self, last.id).content = last.value
    /\ Msg(self, last.id).role = "tool"

\* a transition made by set_instructions or by a backtrack, direct or in run
BacktrackTransition ==
    \/ last'.op \in {"set_instructions", "add_instructions_and_backtrack"}
    \/ last'.op = "step" /\ last'.fn = <<"add_instructions_and_backtrack">>

\* C14: the history only grows. Over every transition other than the
\* caller's own set_message_content call, the number of nodes does not
\* decrease, no node's role, parent or id changes, the content of the user
\* node changes only when a run starts, the content of the instruction node
\* only on set_instructions or a backtrack, and the content of no other
\* node (assistant and tool nodes among them) changes.
C14_HistoryAppendOnly ==
    [][last'.op # "set_message_content"
       => /\ Len(id_to_message') >= Len(id_to_message)
          /\ \A k \in 1..Len(id_to_message) :
                /\ id_to_message'[k].role = id_to_message[k].role
                /\ id_to_message'[k].parent = id_to_message[k].parent
                /\ id_to_message'[k].unique_id = id_to_message[k].unique_id
                /\ id_to_message'[k].content # id_to_message[k].content
                      => \/ /\ k = user_message_id + 1
                            /\ last'.op = "run"
                            /\ last'.kind = "begin"
                         \/ /\ k = instructions_message_id + 1
                            /\ BacktrackTransition]_vars

\* a run step has backtracked below assistant and tool nodes and has put
\* new text on the instruction node, the older nodes being as they were
C14_Witness ==
    /\ last.op = "step"
    /\ last.kind = "tool_ok"
    /\ last.fn = <<"add_instructions_and_backtrack">>
    /\ Msg(self, instructions_message_id).content = <<"NEW", SP, "INSTR">>
    /\ Newest.parent < last.pre_len
    /\ \E j, k \in Ids :
          /\ Msg(self, j).role = "assistant"
          /\ Msg(self, k).role = "tool"
          /\ j < k
          /\ k < last.pre_len

\* C15: add_instructions_and_backtrack with an id that is an integer (or
\* the text of one) of the store puts the instructions on the instruction
\* node, makes that id current, adds no node and returns the confirmation;
\* with any other id (out of range, or not an integer) it raises and leaves
\* the instruction node's content and current as they were.
C15_BacktrackValidOrRaises ==
    [][last'.op = "add_instructions_and_backtrack"
       => LET a == last'.arg
              is_integer == a.t = "int" \/ (a.t = "str" /\ IntOk(a))
              valid == is_integer /\ IntOf(a) \in 0..(Len(id_to_message) - 1)
          IN IF valid
             THEN /\ last'.kind = "ok"
                  /\ id_to_message'[instructions_message_id + 1].content \in Contents
                  /\ current_message_id' = IntOf(a)
                  /\ Len(id_to_message') = Len(id_to_message)
                  /\ last'.value = <<"Updated instructions and backtracked to message ">>
                                   \o IntText(IntOf(a)) \o <<".">>
             ELSE /\ last'.kind = "raised"
                  /\ id_to_message' = id_to_message
                  /\ current_message_id' = current_message_id]_vars

\* C16: a loop step in which add_instructions_and_backtrack raised on an
\* id out of range ends run with that error handed to run's caller: no tool
\* node records it and the loop does not go on.
C16_BacktrackErrorSurfaced ==
    (/\ AfterStep
     /\ last.fn = <<"add_instructions_and_backtrack">>
     /\ last.invoked
     /\ last.exc = "IndexError")
    => /\ pc = "done"
       /\ outcome.error # <<>>
       /\ Newest.role = "assistant"

\* C17: a step whose parsed name is not in the registry calls no tool,
\* appends after the assistant node one tool node saying the function is
\* unknown, leaves the registry and the guards' file hints as they were,
\* and the loop goes on.
C17_UnknownFunctionReported ==
    [][(/\ last'.op = "step"
        /\ Parse(last'.value).ok
        /\ ~Has(function_map, Parse(last'.value).name))
       => /\ last'.kind = "unknown_function"
          /\ ~last'.invoked
          /\ Len(id_to_message') = Len(id_to_message) + 2
          /\ id_to_message'[Len(id_to_message) + 1].role = "assistant"
          /\ id_to_message'[Len(id_to_message) + 2].role = "tool"
          /\ id_to_message'[Len(id_to_message) + 2].content
                = <<"Error: unknown function '">> \o Parse(last'.value).name \o <<"'">>
          /\ function_map' = function_map
          /\ recent_files' = recent_files
          /\ pc' = "loop"
          /\ outcome' = outcome]_vars

\* a step has named show_file, with a file path, on an agent that has no
\* such tool
C17_Witness ==
    /\ AfterStep
    /\ last.kind = "unknown_function"
    /\ last.fn = <<"show_file">>
    /\ ~Has(function_map, <<"show_file">>)
    /\ Newest.role = "tool"
    /\ Newest.content = <<"Error: unknown function '", "show_file", "'">>
    /\ pc = "loop"

\* C18: the arguments a dispatched tool is called with are the parsed
\* arguments whose names the tool declares, each with its parsed value;
\* parsed names the tool does not declare are dropped.
C18_ArgumentsFiltered ==
    (AfterStep /\ last.kind \notin {"parse_error", "unknown_function"})
    => LET parsed == Parse(last.value)
           declared == ParamNames(function_map[parsed.name])
       IN /\ DOMAIN last.accepted = DOMAIN parsed.arguments \cap declared
          /\ \A k \in DOMAIN last.accepted : last.accepted[k] = parsed.arguments[k]

\* a tool was called with fewer arguments than the model's output named
C18_Witness ==
    /\ AfterStep
    /\ last.invoked
    /\ last.kind \in {"tool_ok", "finished"}
    /\ last.accepted # EmptyDict
    /\ DOMAIN last.accepted # DOMAIN Parse(last.value).arguments

C20_StepEndsWithToolNode ==
    AfterStep
    => /\ Len(id_to_message) >= last.pre_len + 2
       /\ Msg(self, last.pre_len).role = "assistant"
       /\ Msg(self, last.pre_len).content = last.value
       /\ \A j \in (last.pre_len + 1)..(Len(id_to_message) - 1) :
             Msg(self, j).role = "tool"
       /\ Newest.role = "tool"

\* a parsed step that appended two tool nodes: finish's output and the
\* guard's refusal
C20_Witness ==
    /\ AfterStep
    /\ Parse(last.value).ok
    /\ last.kind = "finish_blocked"
    /\ Len(id_to_message) = last.pre_len + 3
    /\ pc = "loop"

\* C21: every loop step, whether its output parses or not and whether the
\* dispatch succeeds or not, appends first an assistant node whose content
\* is the model's output and whose parent is the node that was current
\* when the step began (the one the context was built from).
C21_AssistantNodeAlways ==
    AfterStep
    => /\ Len(id_to_message) > last.pre_len
       /\ Msg(self, last.pre_len).role = "assistant"
       /\ Msg(self, last.pre_len).content = last.value
       /\ Msg(self, last.pre_len).parent = last.pre_current
       /\ Msg(self, last.pre_len).unique_id = last.pre_len

\* an output that did not parse was recorded under a node that is not the
\* newest of the store (the step followed a backtrack)
C21_Witness ==
    /\ AfterStep
    /\ last.kind = "parse_error"
    /\ last.pre_current < last.pre_len - 1
    /\ Msg(self, last.pre_len).content = OutGarbage
    /\ Msg(self, last.pre_len).parent = last.pre_current

\* the step before the state dispatched finish and finish returned
FinishStep ==
    /\ AfterStep
    /\ last.fn = <<"finish">>
    /\ last.invoked
    /\ last.exc = "none"
\* the number of nodes when the lookback ran: up to finish's result node
ScanLen == last.pre_len + 2
\* the ids the lookback looked at: the last LookbackWindow tool nodes
Lookback ==
    {i \in 0..(ScanLen - 1) :
       /\ Msg(self, i).role = "tool"
       /\ Cardinality({j \in (i + 1)..(ScanLen - 1) : Msg(self, j).role = "tool"})
             < LookbackWindow}
\* node i mentions the basename of a recently inspected file
Referenced(i) ==
    \E f \in recent_files :
        Basename(f) # <<>> /\ Contains(Msg(self, i).content, Basename(f))
\* the two ends of a finish step: the guidance node and the loop going on
FinishRefused ==
    /\ pc = "loop"
    /\ ~outcome.returned
    /\ Len(id_to_message) = ScanLen + 1
    /\ Newest.role = "tool"
    /\ StartsWith(Newest.content, <<"Guard blocked finish: no non-empty staged diff detected. Continue editing and call stage_and_diff before finish.">>)
\* ... and run returning finish's result
FinishAccepted ==
    /\ pc = "done"
    /\ outcome.returned
    /\ outcome.value = Msg(self, ScanLen - 1).content
    /\ outcome.error = <<>>
    /\ Len(id_to_message) = ScanLen

\* C22 (as stated): with the guard on, a finish step is refused when none
\* of the last 10 tool nodes is a diff that names a recently inspected
\* file, and ends the run otherwise; with the guard off it ends the run.
C22_FinishNeedsReferencedDiff ==
    FinishStep
    => IF guard_empty_diff
          /\ ~\E i \in Lookback : IsDiff(Msg(self, i).content) /\ Referenced(i)
       THEN FinishRefused
       ELSE FinishAccepted

\* C22 (amended): with the guard on, a finish step is refused when none of
\* the last 10 tool nodes is a diff, or when files were recently inspected
\* and no diff among those nodes names one of them; with no recently
\* inspected file any diff among them lets the run end.  With the guard
\* off every finish that was dispatched ends the run.
C22_FinishGuard ==
    FinishStep
    => IF guard_empty_diff
          /\ ~\E i \in Lookback :
                 /\ IsDiff(Msg(self, i).content)
                 /\ (recent_files = {} \/ Referenced(i))
       THEN FinishRefused
       ELSE FinishAccepted

\* a finish was refused although a diff is among the nodes looked at: the
\* diff names a file other than the one inspected
C22_Witness ==
    /\ FinishStep
    /\ guard_empty_diff
    /\ FinishRefused
    /\ recent_files = {FileB}
    /\ \E i \in Lookback : IsDiff(Msg(self, i).content)

\* C23: with the guard on, a run that has returned was given its evidence
\* during the run: a tool node appended by this run before the finish step
\* is a diff.  Neither finish's own result node nor a tool node older than
\* the run counts.
C23_EvidenceFromThisRun ==
    (FinishStep /\ guard_empty_diff /\ pc = "done" /\ outcome.returned)
    => \E i \in run_base..(last.pre_len - 1) :
          /\ Msg(self, i).role = "tool"
          /\ IsDiff(Msg(self, i).content)

\* C24: when a run has just begun, on a new agent or on one that holds
\* history, current is the instruction node and the context is the system,
\* user and instructor nodes in that order and no other node, the user node
\* holding the task; the first step of the run is made from that context.
C24_RunStartsAtInstructions ==
    /\ (last.op = "run" /\ last.kind = "begin")
       => LET ctx == GetContext(self, function_map)
          IN /\ current_message_id = instructions_message_id
             /\ Len(ctx) = 3
             /\ ctx[1].id = system_message_id /\ ctx[1].role = "system"
             /\ ctx[2].id = user_message_id /\ ctx[2].role = "user"
             /\ ctx[3].id = instructions_message_id /\ ctx[3].role = "instructor"
             /\ ctx[2].content = last.value \o <<NL>>
             /\ last.value \in Tasks
             /\ \A k \in 1..Len(ctx) : ctx[k].role \notin {"assistant", "tool"}
    /\ (AfterStep /\ last.id = 0) => last.pre_current = instructions_message_id

\* a second run has begun on an agent whose store holds assistant and tool
\* nodes of the first
C24_Witness ==
    /\ last.op = "run"
    /\ last.kind = "begin"
    /\ runs = 2
    /\ \E j, k \in Ids : Msg(self, j).role = "assistant" /\ Msg(self, k).role = "tool"
    /\ Len(GetContext(self, function_map)) = 3

\* C25: run returns only out of a step whose output parsed to the name
\* finish and whose call of finish returned, and the value returned is the
\* parsed result argument of that call; a step that named another tool, or
\* whose dispatch failed, leaves run in its loop.
C25_ReturnsFinishResult ==
    /\ [][(outcome'.returned /\ ~outcome.returned)
          => /\ last'.op = "step"
             /\ Parse(last'.value).ok
             /\ Parse(last'.value).name = <<"finish">>
             /\ last'.invoked
             /\ last'.exc = "none"
             /\ outcome'.value = Parse(last'.value).arguments[<<"result">>]
             /\ pc' = "done"]_vars
    /\ []((AfterStep /\ (last.fn # <<"finish">> \/ ~last.invoked \/ last.exc # "none"))
          => pc = "loop" /\ ~outcome.returned)

\* run has returned the result of a finish call that named a further,
\* undeclared argument
C25_Witness ==
    /\ AfterStep
    /\ pc = "done"
    /\ outcome.returned
    /\ last.value = OutFinishExtra
    /\ outcome.value = <<"done">>

\* what is left of a text between its first and its last token that is
\* not white space
Trimmed(text) ==
    LET solid == {i \in 1..Len(text) : text[i] \notin Whitespace}
    IN IF solid = {} THEN <<>> ELSE SubSeq(text, MinOf(solid), MaxOf(solid))
\* the positions (from 1) of a token in a text
Positions(text, tok) == {i \in 1..Len(text) : text[i] = tok}
\* the arguments a sequence of <<name, value>> blocks gives: the trimmed
\* value of the last block of each name
ArgDict(args) ==
    [n \in {args[k][1] : k \in 1..Len(args)}
       |-> Trimmed(args[MaxOf({k \in 1..Len(args) : args[k][1] = n})][2])]
\* the call of parse was made on a str and returned
ParsedOk == parse_call.called /\ parse_call.input.t = "str" /\ parse_call.result.ok

\* C26: parse reads the call between the last end marker and the last
\* begin marker before it: the thought is the trimmed text before that begin
\* marker and the name the trimmed text from it to the next argument
\* separator or the end marker; of two complete calls in one text only the
\* second gives the name and the arguments.
C26_RightmostMarkers ==
    /\ ParsedOk
       => LET text == parse_call.input.s
              e == MaxOf(Positions(text, END_CALL))
              b == MaxOf({i \in Positions(text, BEGIN_CALL) : i < e})
              stop == MinOf({i \in Positions(text, ARG_SEP) : b < i /\ i < e} \cup {e})
          IN /\ Positions(text, END_CALL) # {}
             /\ {i \in Positions(text, BEGIN_CALL) : i < e} # {}
             /\ parse_call.result.thought = Trimmed(SubSeq(text, 1, b - 1))
             /\ parse_call.result.name = Trimmed(SubSeq(text, b + 1, stop - 1))
    /\ (parse_call.called /\ parse_call.kind = "two_calls")
       => LET first == parse_call.calls[1]
              second == parse_call.calls[2]
          IN /\ parse_call.result.ok
             /\ parse_call.result.name = second.name
             /\ parse_call.result.arguments = ArgDict(second.args)
             /\ parse_call.result.thought
                   = Trimmed(CallText(first) \o <<NL>> \o second.thought)

\* a text of two complete calls that differ in name and both carry an
\* argument was parsed to the second
C26_Witness ==
    /\ parse_call.called
    /\ parse_call.kind = "two_calls"
    /\ parse_call.calls[1].name # parse_call.calls[2].name
    /\ parse_call.calls[1].args # <<>>
    /\ parse_call.calls[2].args # <<>>
    /\ parse_call.calls[1].args[1][1] # parse_call.calls[2].args[1][1]
    /\ parse_call.result.ok
    /\ parse_call.result.name = parse_call.calls[2].name

\* the call of parse was made on one call in the response format
WellFormedCall == parse_call.called /\ parse_call.kind = "call"
\* a text without the blank lines (newlines) at its two ends
TrimBlankLines(text) ==
    LET solid == {i \in 1..Len(text) : text[i] # NL}
    IN IF solid = {} THEN <<>> ELSE SubSeq(text, MinOf(solid), MaxOf(solid))

\* C27 (as stated): a text in the response format with N argument blocks
\* parses to exactly N arguments, each the text between its name line and
\* the next marker without the blank lines at its ends, the indentation of
\* its first and last line kept.
C27_ValuesKeepIndentation ==
    WellFormedCall
    => LET args == parse_call.calls[1].args
       IN /\ parse_call.result.ok
          /\ Cardinality(DOMAIN parse_call.result.arguments) = Len(args)
          /\ \A k \in 1..Len(args) :
                parse_call.result.arguments[args[k][1]]
                   = TrimBlankLines(args[k][2] \o <<NL>>)

\* C27 (amended): a text in the response format with N argument blocks
\* parses to one argument for each name, N of them when the names differ,
\* a later block of a name replacing an earlier one; each value is the text
\* between its name line and the next marker without the white space at its
\* two ends (blank lines, the indentation of the first line, spaces after
\* the last), what lies between being kept as it is.
C27_ValuesTrimmed ==
    WellFormedCall
    => LET args == parse_call.calls[1].args
           names == {args[k][1] : k \in 1..Len(args)}
       IN /\ parse_call.result.ok
          /\ parse_call.result.name = parse_call.calls[1].name
          /\ DOMAIN parse_call.result.arguments = names
          /\ (\A k, l \in 1..Len(args) : args[k][1] = args[l][1] => k = l)
                => Cardinality(DOMAIN parse_call.result.arguments) = Len(args)
          /\ \A n \in names :
                LET k == MaxOf({j \in 1..Len(args) : args[j][1] = n})
                    value == args[k][2] \o <<NL>>
                    solid == {i \in 1..Len(value) : value[i] \notin Whitespace}
                IN parse_call.result.arguments[n]
                      = IF solid = {} THEN <<>>
                        ELSE SubSeq(value, MinOf(solid), MaxOf(solid))

\* two arguments of different names were parsed, one of two lines whose
\* second is indented (kept), one whose first line is indented (lost)
C27_Witness ==
    /\ WellFormedCall
    /\ parse_call.calls[1].args
          = << <<<<"a">>, <<"l1", NL, SP, "l2">>>>,
               <<<<"b">>, <<SP, SP, "l1", NL, "l2">>>> >>
    /\ parse_call.result.ok
    /\ parse_call.result.arguments[<<"a">>] = <<"l1", NL, SP, "l2">>
    /\ parse_call.result.arguments[<<"b">>] = <<"l1", NL, "l2">>

\* the three failures of the claim, by what the text lacks
NoEndMarker == Positions(parse_call.input.s, END_CALL) = {}
NoBeginMarker ==
    /\ ~NoEndMarker
    /\ \A i \in Positions(parse_call.input.s, BEGIN_CALL) :
          i > MaxOf(Positions(parse_call.input.s, END_CALL))
EmptyName ==
    /\ ~NoEndMarker
    /\ ~NoBeginMarker
    /\ LET text == parse_call.input.s
           e == MaxOf(Positions(text, END_CALL))
           b == MaxOf({i \in Positions(text, BEGIN_CALL) : i < e})
           stop == MinOf({i \in Positions(text, ARG_SEP) : b < i /\ i < e} \cup {e})
       IN \A i \in (b + 1)..(stop - 1) : text[i] \in Whitespace

\* C28: every call of parse returns a whole action (thought, a name that is
\* not empty, arguments) or raises, in which case nothing of an action is
\* returned.  A text without end marker, one without begin marker before
\* the last end marker, and one whose function name is empty raise errors
\* with three different messages.
C28_ActionOrError ==
    parse_call.called
    => /\ IF parse_call.result.ok
          THEN /\ DOMAIN parse_call.result = {"ok", "thought", "name", "arguments"}
               /\ parse_call.result.name # <<>>
               /\ parse_call.input.t = "str"
               /\ ~NoEndMarker /\ ~NoBeginMarker /\ ~EmptyName
          ELSE /\ DOMAIN parse_call.result = {"ok", "error"}
               /\ parse_call.result.error # <<>>
       /\ parse_call.input.t = "str"
          => /\ NoEndMarker
                => /\ ~parse_call.result.ok
                   /\ parse_call.result.error = <<"Missing END_FUNCTION_CALL delimiter">>
             /\ NoBeginMarker
                => /\ ~parse_call.result.ok
                   /\ parse_call.result.error = <<"Missing BEGIN_FUNCTION_CALL delimiter">>
             /\ EmptyName
                => /\ ~parse_call.result.ok
                   /\ parse_call.result.error
                         = <<"Malformed function call: missing function name">>

\* a text with both markers and an argument block but no function name was
\* refused
C28_Witness ==
    /\ parse_call.called
    /\ parse_call.input.t = "str"
    /\ EmptyName
    /\ Positions(parse_call.input.s, ARG_SEP) # {}
    /\ ~parse_call.result.ok
    /\ parse_call.result.error = <<"Malformed function call: missing function name">>

\* C29: add_functions raises TypeError iff one of the tools is not
\* callable; the tools before the first such one (all of them if there is
\* none) are each stored under their __name__, a name that was registered
\* before now naming the tool given last, and every other entry stays.  No
\* step of any kind removes a name, only add_functions changes the
\* registry, and finish is registered in every state.
C29_RegistryOnlyGrows ==
    /\ [][last'.op = "add_functions"
          => LET tools == last'.value
                 bad == {k \in 1..Len(tools) : tools[k] \notin Tools}
                 n == IF bad = {} THEN Len(tools) ELSE MinOf(bad) - 1
                 names == {ToolName(tools[k]) : k \in 1..n}
             IN /\ (last'.kind = "raised") <=> (bad # {})
                /\ bad # {} => last'.exc = "TypeError"
                /\ DOMAIN function_map' = DOMAIN function_map \cup names
                /\ \A name \in names :
                      function_map'[name]
                         = tools[MaxOf({k \in 1..n : ToolName(tools[k]) = name})]
                /\ \A name \in DOMAIN function_map \ names :
                      function_map'[name] = function_map[name]]_vars
    /\ [][DOMAIN function_map \subseteq DOMAIN function_map']_vars
    /\ [][function_map' # function_map => last'.op = "add_functions"]_vars
    /\ [](Has(function_map, <<"finish">>) /\ function_map[<<"finish">>] = "finish")

\* show_file, registered with the tools of the environment, has been
\* registered again and now names the other callable
C29_Witness ==
    /\ last.op = "add_functions"
    /\ last.kind = "ok"
    /\ last.value = <<OtherShowFile>>
    /\ Has(function_map, <<"replace_in_file">>)
    /\ function_map[<<"show_file">>] = OtherShowFile

\* a step of the second agent: each of them moves that agent's position
OtherActed == other'.pc # other.pc \/ other'.step # other.step

\* the second agent's run with no other agent about, for the budget it has
OtherRunAlone ==
    RunAlone(OtherRunStart(OtherAddFunctions(NewAgent), other.limit))

\* C30: two agents whose steps interleave in any order share no mutable
\* state: a step of the second agent leaves the first agent's node list,
\* current pointer, registry and recently-inspected set (and its run's
\* position and outcome) unchanged, a step of the first agent leaves the
\* second agent's unchanged, and so the second agent's run, from wherever
\* it stands, ends exactly as it ends when it runs alone with the same
\* model outputs.
C30_RunsShareNothing ==
    /\ [][OtherActed
          => UNCHANGED <<id_to_message, root_message_id, current_message_id,
                         function_map, recent_files, pc, step, outcome>>]_vars
    /\ [][~OtherActed => other' = other]_vars
    /\ [](other.pc \in {"loop", "done"} => RunAlone(other) = OtherRunAlone)

C30_Witness ==
    /\ other.pc = "done"
    /\ other.outcome.returned
    /\ other.function_map # function_map
    /\ ~Has(other.function_map, <<"show_file">>)
    /\ pc = "done"
    /\ outcome.returned
    /\ Has(function_map, <<"show_file">>)
    /\ recent_files # {}
    /\ other.recent_files = {}
    /\ id_to_message # other.id_to_message

\* an argument segment as the text shows it: white space only; else, from
\* its first token that is not a line break, the name line up to the next
\* line break, if there is one
BlankSegment(seg) == \A i \in 1..Len(seg) : seg[i] \in Whitespace
NameStart(seg) == MinOf({i \in 1..Len(seg) : seg[i] # NL})
NameEnd(seg) == {i \in (NameStart(seg) + 1)..Len(seg) : seg[i] = NL}
NoLineBreak(seg) == ~BlankSegment(seg) /\ NameEnd(seg) = {}
EmptyNameLine(seg) ==
    /\ ~BlankSegment(seg)
    /\ NameEnd(seg) # {}
    /\ \A i \in NameStart(seg)..(MinOf(NameEnd(seg)) - 1) : seg[i] = SP
NameLine(seg) ==
    Trimmed(SubSeq(seg, NameStart(seg), MinOf(NameEnd(seg)) - 1))
SegmentsCall == parse_call.called /\ parse_call.kind = "segments"
KeepSegments(segs, Keep(_)) ==
    LET idx == {i \in 1..Len(segs) : Keep(segs[i])}
        RECURSIVE Pick(_)
        Pick(S) == IF S = {} THEN <<>>
                   ELSE LET m == MinOf(S) IN <<segs[m]>> \o Pick(S \ {m})
    IN Pick(idx)
NotBlank(seg) == ~BlankSegment(seg)

\* C31: in parse, an argument segment that is empty or white space only is
\* skipped without error and adds no entry (the result is that of the text
\* without such segments, and the entries are named by the other segments),
\* while a segment that is not blank and has no line break after its name,
\* or whose name line is empty, makes the whole parse fail, whatever the
\* segments before it.
C31_BlankSkippedBadRejected ==
    SegmentsCall
    => LET segs == parse_call.segments
           bad == {i \in 1..Len(segs) :
                     NoLineBreak(segs[i]) \/ EmptyNameLine(segs[i])}
       IN /\ parse_call.result.ok <=> bad = {}
          /\ parse_call.result.ok
             => DOMAIN parse_call.result.arguments
                   = {NameLine(segs[i]) : i \in {k \in 1..Len(segs) :
                                                    ~BlankSegment(segs[k])}}
          /\ parse_call.result
                = ParseValue(PyStr(SegmentsText(KeepSegments(segs, NotBlank))))

C31_Witness ==
    /\ SegmentsCall
    /\ Len(parse_call.segments) = 3
    /\ BlankSegment(parse_call.segments[1])
    /\ parse_call.segments[1] # <<>>
    /\ ~BlankSegment(parse_call.segments[2])
    /\ parse_call.segments[3] = <<>>
    /\ parse_call.result.ok
    /\ Cardinality(DOMAIN parse_call.result.arguments) = 1

\* a parse that fails on its last segment though the one before it is valid
C31_WitnessRejected ==
    /\ SegmentsCall
    /\ Len(parse_call.segments) = 2
    /\ ~BlankSegment(parse_call.segments[1])
    /\ ~NoLineBreak(parse_call.segments[1])
    /\ ~EmptyNameLine(parse_call.segments[1])
    /\ EmptyNameLine(parse_call.segments[2])
    /\ ~parse_call.result.ok

\* the latest step of the run dispatched a backtrack that returned
BacktrackStep ==
    /\ last.op = "step"
    /\ last.kind = "tool_ok"
    /\ last.fn = <<"add_instructions_and_backtrack">>
\* its target t, the assistant node that asked for it, the confirmation
\* node, and the path the step's context was built from with that assistant
\* node at its end
BacktrackTarget == IntOf(PyStr(last.accepted[<<"at_message_id">>]))
Requesting == last.pre_len
Confirmation == Len(id_to_message) - 1
PreviousPath ==
    PathSet(Tree(id_to_message, root_message_id, last.pre_current))
       \cup {Requesting}
PathToTarget ==
    PathIds(Tree(id_to_message, root_message_id, BacktrackTarget))

\* C32 as stated: after a successful backtrack to t the confirmation node
\* has parent t, the next context is the path root..t followed by the
\* confirmation node, and it holds neither the assistant node that asked
\* for the backtrack nor any node after t on the previous path.
C32_NextContextDropsRequest ==
    BacktrackStep
    => /\ Newest.role = "tool"
       /\ Newest.parent = BacktrackTarget
       /\ current_message_id = Confirmation
       /\ PathIds(self) = PathToTarget \o <<Confirmation>>
       /\ Requesting \notin PathSet(self)
       /\ \A i \in PreviousPath : i > BacktrackTarget => i \notin PathSet(self)

\* C32: after a successful backtrack to t inside run the confirmation tool
\* node has parent t and the next context is the path root..t followed by
\* that node; no node after t on the previous path is on it, and the
\* assistant node that asked for the backtrack is on it exactly when t is
\* that node itself.
C32_NextContextFromTarget ==
    BacktrackStep
    => /\ Newest.role = "tool"
       /\ Newest.parent = BacktrackTarget
       /\ current_message_id = Confirmation
       /\ PathIds(self) = PathToTarget \o <<Confirmation>>
       /\ Requesting \in PathSet(self) <=> BacktrackTarget = Requesting
       /\ \A i \in PreviousPath : i > BacktrackTarget => i \notin PathSet(self)

\* a backtrack in a later step to a node below the step's context: nodes of
\* the earlier step and the asking assistant node are off the next path
C32_Witness ==
    /\ BacktrackStep
    /\ BacktrackTarget < last.pre_current
    /\ Cardinality({i \in PreviousPath : i > BacktrackTarget}) >= 3
    /\ Len(PathIds(self)) = BacktrackTarget + 2

\* a backtrack whose target is the assistant node that asked for it
C32_WitnessSelf ==
    /\ BacktrackStep
    /\ BacktrackTarget = Requesting
    /\ Requesting \in PathSet(self)

\* the text of the node a blocked finish adds, and the nodes of the run so
\* far that hold it
GuardBlockedText ==
    <<"Guard blocked finish: no non-empty staged diff detected. Continue editing and call stage_and_diff before finish.">>
BlockedNodes ==
    {i \in run_base..(Len(id_to_message) - 1) :
        Msg(self, i).role = "tool" /\ Msg(self, i).content = GuardBlockedText}
\* the run is under way or has just ended: nothing but its steps has
\* written the store since it began
InRun == runs >= 1 /\ last.op \in {"step", "run"}

\* C33: every completed loop step appends one assistant node and then one
\* tool node, except a finish step blocked by the empty-diff guard, which
\* appends one assistant node and two tool nodes; so after k steps of a run
\* the store holds between 2k and 3k nodes more than at its start (3 + 2k
\* to 3 + 3k in the first run of a new agent), 2k plus one for each blocked
\* finish, and exactly 2k more when the guard is disabled.
C33_NodesPerStep ==
    /\ [][step' = step + 1
          => LET n == Len(id_to_message)
                 added == Len(id_to_message') - n
             IN /\ added = IF last'.kind = "finish_blocked" THEN 3 ELSE 2
                /\ last'.kind = "finish_blocked" => guard_empty_diff
                /\ id_to_message'[n + 1].role = "assistant"
                /\ \A j \in (n + 2)..(n + added) : id_to_message'[j].role = "tool"
                /\ \A j \in 1..n : id_to_message'[j].role = id_to_message[j].role]_vars
    /\ [](InRun
          => /\ Len(id_to_message) - run_base
                   = 2 * step + Cardinality(BlockedNodes)
             /\ Len(id_to_message) - run_base \in (2 * step)..(3 * step)
             /\ ~guard_empty_diff => Len(id_to_message) - run_base = 2 * step
             /\ (runs = 1 /\ run_base = Len(InitTree.id_to_message))
                   => Len(id_to_message) \in (3 + 2 * step)..(3 + 3 * step))

\* a first run of a new agent in which a step was an ordinary one and
\* another a blocked finish
C33_Witness ==
    /\ InRun
    /\ runs = 1
    /\ run_base = 3
    /\ guard_empty_diff
    /\ step = 2
    /\ Len(id_to_message) = 3 + 2 * step + 1
    /\ last.kind = "finish_blocked"

\* a run in which every step was a blocked finish
C33_WitnessAllBlocked ==
    /\ InRun
    /\ run_base = 3
    /\ step >= 2
    /\ Len(id_to_message) = 3 + 3 * step

\* the latest step dispatched a finish call that names no result
FinishWithoutResult ==
    /\ AfterStep
    /\ last.fn = <<"finish">>
    /\ last.kind # "unknown_function"
    /\ ~Has(last.accepted, <<"result">>)

\* C34: a finish action that parses but has no result argument never ends
\* the run: the call does not bind, the TypeError becomes an error tool
\* node, nothing is returned and the loop goes on; a run in progress ends
\* only by a finish step that has a result, or when its steps are used up.
C34_FinishNeedsResult ==
    /\ [](FinishWithoutResult
          => /\ last.invoked
             /\ last.exc = "TypeError"
             /\ pc = "loop"
             /\ outcome = NoOutcome
             /\ Len(id_to_message) = last.pre_len + 2
             /\ Msg(self, last.pre_len).role = "assistant"
             /\ Newest.role = "tool"
             /\ StartsWith(Newest.content, <<"Error executing ", "finish", ": ">>))
    /\ [][(pc = "loop" /\ pc' = "done")
          => \/ /\ last'.op = "step"
                /\ last'.fn = <<"finish">>
                /\ Has(last'.accepted, <<"result">>)
                /\ outcome'.returned
                /\ outcome'.value = last'.accepted[<<"result">>]
             \/ /\ last'.op = "run"
                /\ last'.kind = "exhausted"
                /\ step >= step_limit
                /\ ~outcome'.returned]_vars

\* a finish without a result was refused in the first step and the run
\* then ended by a finish with a result
C34_Witness ==
    /\ AfterStep
    /\ step = 2
    /\ Msg(self, run_base).content = OutFinishNoResult
    /\ StartsWith(Msg(self, run_base + 1).content, <<"Error executing ", "finish", ": ">>)
    /\ last.value = OutFinishExtra
    /\ pc = "done"
    /\ outcome.returned

\* every step of the run was a finish without a result and the run ended by
\* exhaustion
C34_WitnessExhausted ==
    /\ last.op = "run"
    /\ last.kind = "exhausted"
    /\ step = 2
    /\ Msg(self, run_base).content = OutFinishNoResult
    /\ Msg(self, run_base + 2).content = OutFinishNoResult
    /\ outcome.error # <<>>

\* the latest step called the backtrack tool with both arguments
BacktrackCalled ==
    /\ AfterStep
    /\ last.fn = <<"add_instructions_and_backtrack">>
    /\ last.invoked
    /\ DOMAIN last.accepted = {<<"instructions">>, <<"at_message_id">>}
\* the run has backtracked to the system or the user node: only the
\* confirmation of such a backtrack is made a child of one of them in a run
RewoundAboveInstructions ==
    \E i \in run_base..(Len(id_to_message) - 1) :
       Msg(self, i).parent \in {system_message_id, user_message_id}
OnPath(id) == id \in PathSet(self)

\* C35 as stated: every in-range target is accepted, the system and the
\* user node among them, and once the run has backtracked to one of these
\* two no context built later in the run holds the instruction node, while
\* every context begins with the system node.
C35_InstructionsGoneForGood ==
    /\ BacktrackCalled
       => (last.kind = "tool_ok"
             <=> (IntOk(PyStr(last.accepted[<<"at_message_id">>]))
                  /\ BacktrackTarget \in 0..last.pre_len))
    /\ (InRun /\ RewoundAboveInstructions) => ~OnPath(instructions_message_id)
    /\ InRun => PathIds(self)[1] = system_message_id

\* C35: a backtrack action accepts any in-range target, the system node and
\* the user node among them; after a backtrack to one of these two the next
\* context does not hold the instruction node, whose content the call has
\* just rewritten, and no later step of the run brings it back other than a
\* further successful backtrack; every context of the run begins with the
\* system node.
C35_BacktrackAboveInstructions ==
    /\ [](BacktrackCalled
          => (last.kind = "tool_ok"
                <=> (IntOk(PyStr(last.accepted[<<"at_message_id">>]))
                     /\ BacktrackTarget \in 0..last.pre_len)))
    /\ []((BacktrackStep
             /\ BacktrackTarget \in {system_message_id, user_message_id})
          => /\ ~OnPath(instructions_message_id)
             /\ Msg(self, instructions_message_id).content
                   = last.accepted[<<"instructions">>]
             /\ Newest.parent = BacktrackTarget)
    /\ [](InRun => PathIds(self)[1] = system_message_id)
    /\ [][(/\ step' = step + 1
           /\ ~OnPath(instructions_message_id)
           /\ ~(last'.kind = "tool_ok"
                  /\ last'.fn = <<"add_instructions_and_backtrack">>))
          => instructions_message_id \notin
                PathSet(Tree(id_to_message', root_message_id',
                             current_message_id'))]_vars

\* the run backtracked to the system node and then made another step whose
\* context began at the system node and did not hold the instruction node
C35_Witness ==
    /\ AfterStep
    /\ step = 2
    /\ last.kind = "parse_error"
    /\ Msg(self, run_base + 1).parent = system_message_id
    /\ ~OnPath(instructions_message_id)
    /\ PathIds(self) = <<system_message_id, run_base + 1, run_base + 2, run_base + 3>>
    /\ Msg(self, instructions_message_id).content = <<"NEW", SP, "INSTR">>

\* a second backtrack has brought the instruction node back
C35_WitnessBack ==
    /\ InRun
    /\ RewoundAboveInstructions
    /\ OnPath(instructions_message_id)

\* the path the finish step's result node ends, and diff evidence as the
\* lookback takes it
ScanPath == PathSet(Tree(id_to_message, root_message_id, ScanLen - 1))
Evidence(i) ==
    /\ IsDiff(Msg(self, i).content)
    /\ (recent_files = {} \/ Referenced(i))

\* C36: the lookback goes through the stored nodes from the newest down,
\* whatever the current path is: with the guard on, a finish step ends the
\* run when a tool node among the 10 newest tool nodes holds diff evidence
\* though that node is off the path, on a branch a backtrack has left; and
\* evidence on the path or off it is what decides, so a finish with none
\* among those nodes is refused.
C36_LookbackIgnoresPath ==
    (FinishStep /\ guard_empty_diff)
    => /\ (\E i \in Lookback \ ScanPath : Evidence(i)) => FinishAccepted
       /\ FinishAccepted <=> \E i \in Lookback : Evidence(i)
       /\ ~FinishAccepted => FinishRefused

\* a run staged a diff, backtracked to the instruction node and finished:
\* the diff node is on the branch left behind and the run returned
C36_Witness ==
    /\ FinishStep
    /\ guard_empty_diff
    /\ FinishAccepted
    /\ ~IsDiff(Msg(self, ScanLen - 1).content)
    /\ \E i \in (abandoned \cap Lookback) \ ScanPath :
          /\ i >= run_base
          /\ Evidence(i)
    /\ ~\E i \in ScanPath : Msg(self, i).role = "tool" /\ IsDiff(Msg(self, i).content)

====
